---- MODULE Spec2Model ----
(***************************************************************************)
(* A model of the ptrace-syscalls decoder: the register adapter, the       *)
(* remote memory reader of inspect.rs, the records generated by            *)
(* gen_syscalls! from the syscall table, and their dispatch.               *)
(*                                                                         *)
(* The machine is scaled: a byte holds ByteBits bits, so that a machine    *)
(* word of WORD_SIZE bytes (c_long, usize, a register) stays inside the    *)
(* integers TLC computes with.  Every size is kept in bytes as in the      *)
(* source (c_long 8, c_int 4, u8 1), so the ratios between the widths and  *)
(* every alignment computation are those of the 64-bit targets.            *)
(***************************************************************************)
EXTENDS Integers, Sequences, FiniteSets, TLC

VARIABLES
    arch,          \* target_arch the crate was built for
    bytes,         \* tracee memory contents, address -> byte
    mapped,        \* pages of the tracee that are readable
    bulk_enabled,  \* process_vm_readv is permitted by the kernel
    SHOULD_USE_PROCESS_VM_READV, \* the process-wide AtomicBool
    regs,          \* the register snapshot of the last stop
    raw_args,      \* the SyscallRawArgs built at the last syscall entry
    op,            \* the operation performed last and its inputs
    out,           \* what the operation returned
    log,           \* the kernel requests the operation issued, in order
    pc             \* each reader thread's position in read_remote_memory

vars == <<arch, bytes, mapped, bulk_enabled, SHOULD_USE_PROCESS_VM_READV,
          regs, raw_args, op, out, log, pc>>

----------------------------------------------------------------------------
(* The scaled machine *)

ByteBits == 2
PageBits == 4
MemPages == 6

WORD_SIZE == 8
IOV_MAX == 60

Pow2(n) == 2 ^ n
ByteMax == Pow2(ByteBits) - 1
Byte == 0 .. ByteMax
PageSize == Pow2(PageBits)
MemTop == MemPages * PageSize - 1
UsizeBits == ByteBits * WORD_SIZE
UsizeMax == Pow2(UsizeBits) - 1

Min(a, b) == IF a < b THEN a ELSE b

\* `v as T` for an integer type T of `size` bytes: truncation to the width
\* of T, then reinterpretation as two's complement when T is signed.
Reinterpret(t, m, signed) == IF signed /\ 2 * t >= m THEN t - m ELSE t
Cast(v, size, signed) ==
    Reinterpret(v % Pow2(ByteBits * size), Pow2(ByteBits * size), signed)

AsIsize(v) == Cast(v, WORD_SIZE, TRUE)
AsUsize(v) == Cast(v, WORD_SIZE, FALSE)

\* c_long::to_ne_bytes on the little-endian targets, and its inverse.
RECURSIVE ToNeBytes(_, _)
ToNeBytes(v, n) ==
    IF n = 0 THEN <<>>
    ELSE <<v % Pow2(ByteBits)>> \o ToNeBytes(v \div Pow2(ByteBits), n - 1)

RECURSIVE FromNeBytes(_)
FromNeBytes(w) ==
    IF w = <<>> THEN 0
    ELSE Head(w) + Pow2(ByteBits) * FromNeBytes(Tail(w))

----------------------------------------------------------------------------
(* The kernel facilities, as the reader sees them *)

Readable(a) ==
    /\ a \in DOMAIN bytes
    /\ (a \div PageSize) \in mapped

\* ptrace(PTRACE_PEEKDATA): one word at any address; it fails as a whole
\* when a byte of the word is not readable.
PeekOk(a) == \A i \in 0 .. WORD_SIZE - 1 : Readable(a + i)
PeekWord(a) == [i \in 1 .. WORD_SIZE |-> bytes[a + i - 1]]

\* process_vm_readv: the remote iovecs are transferred in order and the
\* transfer stops at the first one that faults; -1 when nothing at all was
\* transferred.  riovs is a sequence of [base, len].
IovReadable(v) == \A i \in 0 .. v.len - 1 : Readable(v.base + i)
IovData(v) == [i \in 1 .. v.len |-> bytes[v.base + i - 1]]

\* The iovecs before the first one that faults.
ReadableIovs(riovs) ==
    SubSeq(riovs, 1,
           Cardinality({i \in 1 .. Len(riovs) :
                           \A j \in 1 .. i : IovReadable(riovs[j])}))

RECURSIVE IovBytes(_)
IovBytes(riovs) ==
    IF riovs = <<>> THEN <<>>
    ELSE IF Len(riovs) = 1 THEN IovData(riovs[1])
    ELSE IovBytes(SubSeq(riovs, 1, Len(riovs) \div 2))
         \o IovBytes(SubSeq(riovs, Len(riovs) \div 2 + 1, Len(riovs)))

\* The return of the call, given the bytes it transferred.
ReadvReturn(got) ==
    IF got = <<>> THEN [ret |-> -1, errno |-> "EFAULT", data |-> <<>>]
    ELSE [ret |-> Len(got), errno |-> "", data |-> got]

process_vm_readv(riovs) ==
    IF ~bulk_enabled THEN [ret |-> -1, errno |-> "EPERM", data |-> <<>>]
    ELSE ReadvReturn(IovBytes(ReadableIovs(riovs)))

----------------------------------------------------------------------------
(* read_remote_memory and its two paths (inspect.rs) *)

\* Result<usize, Errno> of a raw read, with the bytes stored into dest so
\* far and the kernel requests issued.
RdOk(n, buf, lg) == [ok |-> TRUE, n |-> n, errno |-> "", buf |-> buf, log |-> lg]
RdErr(e, buf, lg) == [ok |-> FALSE, n |-> 0, errno |-> e, buf |-> buf, log |-> lg]

PeekReq(a) == [call |-> "peek", addr |-> a, iovs |-> <<>>]
ReadvReq(riovs) == [call |-> "readv", addr |-> riovs[1].base, iovs |-> riovs]

\* The `for _ in 0..(len / WORD_SIZE)` loop: k whole words from addr; e is
\* the errno a failing peek reports.  r is the result so far, r.n bytes
\* into the loop; a word that was read stays in dest when a later one
\* fails.
PeekWordStep(addr, r, e) ==
    IF ~r.ok THEN r
    ELSE IF ~PeekOk(addr + r.n)
    THEN RdErr(e, r.buf, Append(r.log, PeekReq(addr + r.n)))
    ELSE RdOk(r.n + WORD_SIZE, r.buf \o PeekWord(addr + r.n),
              Append(r.log, PeekReq(addr + r.n)))

\* k passes of the loop body, as the first half of them followed by the
\* rest.
RECURSIVE PeekWordLoop(_, _, _, _)
PeekWordLoop(addr, r, k, e) ==
    IF ~r.ok \/ k = 0 THEN r
    ELSE IF k = 1 THEN PeekWordStep(addr, r, e)
    ELSE PeekWordLoop(addr, PeekWordLoop(addr, r, k \div 2, e), k - k \div 2, e)

PeekWords(addr, k, e) == PeekWordLoop(addr, RdOk(0, <<>>, <<>>), k, e)

\* The `left_over` read after the whole words; prefix and plog are what the
\* unaligned head stored and requested.
PeekTail(whole, addr2, left_over, e, prefix, plog) ==
    IF ~whole.ok THEN RdErr(e, prefix \o whole.buf, plog \o whole.log)
    ELSE IF left_over = 0
    THEN RdOk(Len(prefix) + whole.n, prefix \o whole.buf, plog \o whole.log)
    ELSE IF ~PeekOk(addr2)
    THEN RdErr(e, prefix \o whole.buf, plog \o whole.log \o <<PeekReq(addr2)>>)
    ELSE RdOk(Len(prefix) + whole.n + left_over,
              prefix \o whole.buf \o SubSeq(PeekWord(addr2), 1, left_over),
              plog \o whole.log \o <<PeekReq(addr2)>>)

PeekRest(addr1, len1, e, prefix, plog) ==
    PeekTail(PeekWords(addr1, len1 \div WORD_SIZE, e),
             addr1 + (len1 \div WORD_SIZE) * WORD_SIZE, len1 % WORD_SIZE,
             e, prefix, plog)

\* memcpy(dest, &word + align_bytes, copy_len); junk stands for a byte it
\* takes from beyond the peeked word.
PrefixBytes(word, align_bytes, copy_len, junk) ==
    [i \in 1 .. copy_len |->
        IF align_bytes + i <= WORD_SIZE THEN word[align_bytes + i] ELSE junk]

\* The `if align_bytes != 0` block, with
\* copy_len = len.min(remote_addr as usize - align_bytes).
PeekPrefix(remote_addr, len, e, junk, align_bytes, aligned_addr, copy_len) ==
    IF ~PeekOk(aligned_addr) THEN RdErr(e, <<>>, <<PeekReq(aligned_addr)>>)
    ELSE PeekRest(remote_addr + copy_len, len - copy_len, e,
                  PrefixBytes(PeekWord(aligned_addr), align_bytes, copy_len, junk),
                  <<PeekReq(aligned_addr)>>)

read_by_ptrace_peek(remote_addr, len, e, junk) ==
    IF remote_addr + len > UsizeMax THEN RdErr("EFAULT", <<>>, <<>>)
    ELSE IF remote_addr % WORD_SIZE = 0
    THEN PeekRest(remote_addr, len, e, <<>>, <<>>)
    ELSE PeekPrefix(remote_addr, len, e, junk, remote_addr % WORD_SIZE,
                    remote_addr - (remote_addr % WORD_SIZE),
                    Min(len, remote_addr - (remote_addr % WORD_SIZE)))

\* The inner `while len > 0` loop: remote iovecs split at page boundaries.
\* s is the state of the loop, [ok, riovs, cur, len], with riov_used the
\* length of riovs.
IovFail(cur, len) == [ok |-> FALSE, riovs |-> <<>>, cur |-> cur, len |-> len]

\* A pass that leaves out `len -= iov_len`
IovPush_keeps_len(s, iov_len) ==
    IF s.cur + iov_len > UsizeMax THEN IovFail(s.cur, s.len - iov_len)
    ELSE [ok |-> TRUE, riovs |-> Append(s.riovs, [base |-> s.cur, len |-> iov_len]),
          cur |-> s.cur + iov_len, len |-> s.len]

\* `len -= iov_len; cur = cur.checked_add(iov_len).ok_or(EFAULT)?; riov_used += 1`
IovPush(s, iov_len) ==
    IF s.cur + iov_len > UsizeMax THEN IovFail(s.cur, s.len - iov_len)
    ELSE [ok |-> TRUE, riovs |-> Append(s.riovs, [base |-> s.cur, len |-> iov_len]),
          cur |-> s.cur + iov_len, len |-> s.len - iov_len]

\* A pass that takes the rest of the request as one iovec
IovStep_unsplit(s) ==
    IF ~s.ok \/ s.len = 0 \/ Len(s.riovs) = IOV_MAX THEN s
    ELSE IF s.cur >= UsizeMax THEN IovFail(s.cur, s.len)
    ELSE IovPush(s, s.len)

\* One pass of the loop body; a loop that has ended stays as it is.
IovStep(s) ==
    IF ~s.ok \/ s.len = 0 \/ Len(s.riovs) = IOV_MAX THEN s
    ELSE IF s.cur >= UsizeMax THEN IovFail(s.cur, s.len)
    ELSE IovPush(s, Min(PageSize - (s.cur % PageSize), s.len))

\* n passes, as the first half of them followed by the rest.  The loop
\* ends within IOV_MAX passes.
RECURSIVE IovLoop(_, _)
IovLoop(s, n) ==
    IF ~s.ok \/ s.len = 0 \/ n = 0 THEN s
    ELSE IF n = 1 THEN IovStep(s)
    ELSE IovLoop(IovLoop(s, n \div 2), n - n \div 2)

BuildIovs(cur, len, riov_used) ==
    IovLoop([ok |-> TRUE, riovs |-> <<>>, cur |-> cur, len |-> len],
            IOV_MAX - riov_used)

\* The outer `while len > 0` loop: b is the batch of iovecs, k the return of
\* the call on it.
ReadvCons(k, riovs, r) ==
    [r EXCEPT !.buf = k.data \o r.buf, !.log = <<ReadvReq(riovs)>> \o r.log]

RECURSIVE ReadvLoop(_, _, _)
ReadvCall(b, k, total_read) ==
    IF k.ret = -1 THEN RdErr(k.errno, <<>>, <<ReadvReq(b.riovs)>>)
    ELSE ReadvCons(k, b.riovs, ReadvLoop(b.cur, b.len, total_read + k.ret))

ReadvBatch(b, total_read) ==
    IF ~b.ok THEN RdErr("EFAULT", <<>>, <<>>)
    ELSE ReadvCall(b, process_vm_readv(b.riovs), total_read)

ReadvLoop(cur, len, total_read) ==
    IF len = 0 THEN RdOk(total_read, <<>>, <<>>)
    ELSE ReadvBatch(BuildIovs(cur, len, 0), total_read)

read_by_process_vm_readv(remote_addr, len) == ReadvLoop(remote_addr, len, 0)

\* env carries what a call depends on besides the tracee's memory:
\* [flag: SHOULD_USE_PROCESS_VM_READV, errno: what a failing peek reports,
\*  junk: the value of a byte that was never written].
\* The result has the raw read's fields and the flag as the call leaves it.
WithFlag(r, f) ==
    [ok |-> r.ok, n |-> r.n, errno |-> r.errno, buf |-> r.buf, log |-> r.log,
     flag |-> f]

\* A fallback that reports the bulk read's error
Fallback_bulk_error(result, p) == WithFlag(result, FALSE)

\* The fallback after a failed bulk read clears the flag.
Fallback(result, p) == WithFlag([p EXCEPT !.log = result.log \o p.log], FALSE)

BulkThenPeek(result, remote_addr, len, env) ==
    IF result.ok THEN WithFlag(result, env.flag)
    ELSE Fallback(result, read_by_ptrace_peek(remote_addr, len, env.errno, env.junk))

read_remote_memory(remote_addr, len, env) ==
    IF len < WORD_SIZE * 2
    THEN WithFlag(read_by_ptrace_peek(remote_addr, len, env.errno, env.junk), env.flag)
    ELSE IF env.flag
    THEN BulkThenPeek(read_by_process_vm_readv(remote_addr, len),
                      remote_addr, len, env)
    ELSE WithFlag(read_by_ptrace_peek(remote_addr, len, env.errno, env.junk), env.flag)

----------------------------------------------------------------------------
(* InspectResult<T> and the typed readers (inspect.rs) *)

\* Option<T>: None is <<>>, Some(x) is <<x>>.
None == <<>>
Some(x) == <<x>>

\* InspectResult<T> = Result<T, InspectError<T>>.  val holds the Ok value,
\* partial is ReadFailure's `incomplete: Option<T>`.
Ok(v) == [tag |-> "Ok", errno |-> "", partial |-> None, val |-> Some(v)]
ReadFailure(e, incomplete) ==
    [tag |-> "ReadFailure", errno |-> e, partial |-> incomplete, val |-> None]
SyscallFailure ==
    [tag |-> "SyscallFailure", errno |-> "", partial |-> None, val |-> None]

\* The closures handed to map_ptrace_failure, as data: what they capture
\* and what they make of the element's partial.
\*   |_| res                                    Replace(res)
\*   |incomplete| { res.push(incomplete); res }  Push(res)
\*   |incomplete| vec![incomplete]               Push(<<>>)
\*   |incomplete| vec![item1, incomplete]        Push(<<item1>>)
\*   Some                                        Wrap
\*   |incomplete| incomplete                     Keep
Replace(res) == [kind |-> "replace", captured |-> res]
Push(res) == [kind |-> "push", captured |-> res]
Wrap == [kind |-> "wrap", captured |-> <<>>]
Keep == [kind |-> "keep", captured |-> <<>>]
CallOnce(f, x) ==
    CASE f.kind = "replace" -> f.captured
      [] f.kind = "push" -> Append(f.captured, x)
      [] f.kind = "wrap" -> Some(x)
      [] f.kind = "keep" -> x

map_ptrace_failure(err, f) ==
    IF err.tag = "ReadFailure"
    THEN [err EXCEPT !.partial = IF err.partial = None THEN None
                                 ELSE Some(CallOnce(f, err.partial[1]))]
    ELSE err

\* What a reader returns: the InspectResult, the kernel requests issued, and
\* the bulk flag as the call leaves it.
Ret(res, lg, flag) == [res |-> res, log |-> lg, flag |-> flag]

\* impl InspectFromPid for InspectResult<T: ReprCMarker>: the value is the
\* size_of::<T>() bytes of buf; a byte the read did not store is junk.  r is
\* what read_remote_memory returned.
FixedValue(r, size, junk) ==
    IF ~r.ok THEN Ret(ReadFailure(r.errno, None), r.log, r.flag)
    ELSE Ret(Ok([i \in 1 .. size |-> IF i <= Len(r.buf) THEN r.buf[i] ELSE junk]),
             r.log, r.flag)

inspect_fixed(size, address, env) ==
    FixedValue(read_remote_memory(address, size, env), size, env.junk)

\* Index of the first zero byte of a word, 0 when there is none.
FirstZero(w) ==
    IF \E i \in 1 .. Len(w) : w[i] = 0
    THEN CHOOSE i \in 1 .. Len(w) : w[i] = 0 /\ \A j \in 1 .. i - 1 : w[j] # 0
    ELSE 0

\* The loop of read_generic_string; word_bytes is the word just read and z
\* the position of its first zero byte.
RECURSIVE StringLoop(_, _, _, _)
StringWord(address, word_bytes, z, buf, lg, env) ==
    IF z # 0
    THEN Ret(Ok(buf \o SubSeq(word_bytes, 1, z - 1)), lg, env.flag)
    ELSE StringLoop(address + WORD_SIZE, buf \o word_bytes, lg, env)

StringLoop(address, buf, lg, env) ==
    IF ~PeekOk(address)
    THEN Ret(ReadFailure(env.errno, Some(buf)), lg \o <<PeekReq(address)>>, env.flag)
    ELSE StringWord(address, PeekWord(address), FirstZero(PeekWord(address)),
                    buf, lg \o <<PeekReq(address)>>, env)

\* read_cstring and read_pathbuf differ in the constructor only; both keep
\* the bytes.
read_generic_string(address, env) == StringLoop(address, <<>>, <<>>, env)

\* An element type T with InspectResult<T>: InspectFromPid, as
\* [kind |-> "fixed", size |-> size_of::<T>()] or [kind |-> "string", ...].
FixedT(size) == [kind |-> "fixed", size |-> size]
StringT == [kind |-> "string", size |-> 2 * WORD_SIZE]

inspect_item(T, address, env) ==
    IF T.kind = "fixed" THEN inspect_fixed(T.size, address, env)
    ELSE read_generic_string(address, env)

\* The loop of read_null_ended_array; ptr is the word just read, item what
\* the element reader returned for it.
RECURSIVE NullEndedLoop(_, _, _, _, _)
NullEndedItem(T, address, item, res, lg, env) ==
    IF item.res.tag = "Ok"
    THEN NullEndedLoop(T, address + WORD_SIZE, Append(res, item.res.val[1]),
                       lg \o item.log, [env EXCEPT !.flag = item.flag])
    ELSE Ret(map_ptrace_failure(item.res, Replace(res)), lg \o item.log, item.flag)

NullEndedSlot(T, address, ptr, res, lg, env) ==
    IF ptr = 0 THEN Ret(Ok(res), lg, env.flag)
    ELSE NullEndedItem(T, address, inspect_item(T, ptr, env), res, lg, env)

NullEndedLoop(T, address, res, lg, env) ==
    IF ~PeekOk(address)
    THEN Ret(ReadFailure(env.errno, Some(res)), lg \o <<PeekReq(address)>>, env.flag)
    ELSE NullEndedSlot(T, address, FromNeBytes(PeekWord(address)), res,
                       lg \o <<PeekReq(address)>>, env)

read_null_ended_array(T, address, env) == NullEndedLoop(T, address, <<>>, <<>>, env)

\* impl InspectCountedFromPid for InspectResult<Vec<T>>; item is what the
\* element reader returned for element i.
RECURSIVE CountedLoop(_, _, _, _, _, _, _)
CountedItem(T, address, count, i, item, res, lg, env) ==
    IF item.res.tag = "Ok"
    THEN CountedLoop(T, address, count, i + 1, Append(res, item.res.val[1]),
                     lg \o item.log, [env EXCEPT !.flag = item.flag])
    ELSE Ret(map_ptrace_failure(item.res, Push(res)), lg \o item.log, item.flag)

CountedLoop(T, address, count, i, res, lg, env) ==
    IF i = count THEN Ret(Ok(res), lg, env.flag)
    ELSE CountedItem(T, address, count, i,
                     inspect_item(T, address + i * T.size, env), res, lg, env)

inspect_counted(T, address, count, env) ==
    CountedLoop(T, address, count, 0, <<>>, <<>>, env)

\* impl InspectFromPid for Result<[T; 2], InspectError<Vec<T>>>; r1 and r2
\* are what the element reader returned for the two elements.
Array2Second(r1, r2) ==
    IF r2.res.tag # "Ok"
    THEN Ret(map_ptrace_failure(r2.res, Push(<<r1.res.val[1]>>)),
             r1.log \o r2.log, r2.flag)
    ELSE Ret(Ok(<<r1.res.val[1], r2.res.val[1]>>), r1.log \o r2.log, r2.flag)

Array2First(T, address, r1, env) ==
    IF r1.res.tag # "Ok"
    THEN Ret(map_ptrace_failure(r1.res, Push(<<>>)), r1.log, r1.flag)
    ELSE Array2Second(r1, inspect_item(T, address + T.size,
                                       [env EXCEPT !.flag = r1.flag]))

inspect_array2(T, address, env) ==
    Array2First(T, address, inspect_item(T, address, env), env)

\* An Option impl without the null check
inspect_option_unchecked(address, inner, env) ==
    IF inner.res.tag = "Ok"
    THEN Ret(Ok(Some(inner.res.val[1])), inner.log, inner.flag)
    ELSE Ret(map_ptrace_failure(inner.res, Wrap),
             inner.log, inner.flag)

\* The Option impls: a null address is Ok(None) without a read; otherwise
\* the inner reader's value is wrapped in Some, and so is a partial
\* (map_ptrace_failure(Some)).  inner is the inner reader's return.
inspect_option(address, inner, env) ==
    IF address = 0 THEN Ret(Ok(None), <<>>, env.flag)
    ELSE IF inner.res.tag = "Ok"
         THEN Ret(Ok(Some(inner.res.val[1])), inner.log, inner.flag)
         ELSE Ret(map_ptrace_failure(inner.res, Wrap),
                  inner.log, inner.flag)

\* impl InspectFromPid for Result<Option<[T; 2]>, InspectError<Vec<T>>>:
\* the partial is passed through as it is.
SomeArray2(inner) ==
    IF inner.res.tag = "Ok"
    THEN Ret(Ok(Some(inner.res.val[1])), inner.log, inner.flag)
    ELSE Ret(map_ptrace_failure(inner.res, Keep), inner.log, inner.flag)

inspect_option_array2(T, address, env) ==
    IF address = 0 THEN Ret(Ok(None), <<>>, env.flag)
    ELSE SomeArray2(inspect_array2(T, address, env))

----------------------------------------------------------------------------
(* The syscall table (syscalls.rs) as gen_syscalls! parses it *)

Archs == {"x86_64", "aarch64", "riscv64"}

\* A declared type: how wrap_syscall_arg_type classifies it and which impl
\* of InspectFromPid its wrapped type selects.
\*   int     copied from the raw slot with `as`
\*   unit    the result type Unit
\*   item    InspectResult<T>, T a ReprCMarker type, CString or PathBuf
\*   vec     InspectResult<Vec<T>>, T u8 or CString (read_null_ended_array)
\*   array2  Result<[T; 2], InspectError<Vec<T>>>
\*   todo    InspectResult<Arc<statmount>>, whose inspect_from is todo!()
\*   noimpl  a wrapped type for which inspect.rs has no InspectFromPid impl
\* opt marks Option<..> around the shape.  The `@ counted_by(..)` decoder of
\* a field is parsed but not used by the generator, so it is not kept.
Ty(shape, T, signed) == [shape |-> shape, T |-> T, signed |-> signed, opt |-> FALSE]
IntT(size, signed) == Ty("int", FixedT(size), signed)
PtrT == IntT(WORD_SIZE, FALSE)
UnitT == Ty("unit", FixedT(0), FALSE)
ItemT(T) == Ty("item", T, FALSE)
VecT(T) == Ty("vec", T, FALSE)
Array2T(T) == Ty("array2", T, FALSE)
TodoT == Ty("todo", FixedT(0), FALSE)
NoImplT == Ty("noimpl", FixedT(0), FALSE)
OptT(ty) == [ty EXCEPT !.opt = TRUE]

\* A decoded field: its name, the position of the raw argument of the same
\* name, and its type.
Arg(name, slot, ty) == [name |-> name, slot |-> slot, ty |-> ty]

Entry(name, raw, args, result, modified_args, groups, archs) ==
    [name |-> name, raw |-> raw, args |-> args, result |-> result,
     modified_args |-> modified_args, groups |-> groups, archs |-> archs]

Table == <<
  Entry("accept", <<IntT(4, TRUE), PtrT, PtrT>>,
        <<Arg("socketfd", 1, IntT(4, TRUE)), Arg("addr", 2, ItemT(FixedT(16))), Arg("addrlen", 3, ItemT(FixedT(4)))>>,
        IntT(4, TRUE), <<Arg("addr", 2, ItemT(FixedT(16))), Arg("addrlen", 3, ItemT(FixedT(4)))>>,
        {"Network"}, [x86_64 |-> 43, aarch64 |-> 202, riscv64 |-> 202]),
  Entry("accept4", <<IntT(4, TRUE), PtrT, PtrT, IntT(4, TRUE)>>,
        <<Arg("socketfd", 1, IntT(4, TRUE)), Arg("addr", 2, ItemT(FixedT(16))), Arg("addrlen", 3, ItemT(FixedT(4))), Arg("flags", 4, IntT(4, TRUE))>>,
        IntT(4, TRUE), <<Arg("addr", 2, ItemT(FixedT(16))), Arg("addrlen", 3, ItemT(FixedT(4)))>>,
        {"Network"}, [x86_64 |-> 288, aarch64 |-> 242, riscv64 |-> 242]),
  Entry("access", <<PtrT, IntT(4, TRUE)>>,
        <<Arg("pathname", 1, ItemT(StringT)), Arg("mode", 2, IntT(4, TRUE))>>,
        IntT(4, TRUE), <<>>,
        {"File"}, [x86_64 |-> 21]),
  Entry("acct", <<PtrT>>,
        <<Arg("filename", 1, OptT(ItemT(StringT)))>>,
        IntT(4, TRUE), <<>>,
        {"File"}, [x86_64 |-> 163, aarch64 |-> 89, riscv64 |-> 89]),
  Entry("add_key", <<PtrT, PtrT, PtrT, IntT(8, FALSE), IntT(4, TRUE)>>,
        <<Arg("r#type", 1, ItemT(StringT)), Arg("description", 2, ItemT(StringT)), Arg("payload", 3, VecT(FixedT(1))), Arg("plen", 4, IntT(8, FALSE)), Arg("keyring", 5, IntT(4, TRUE))>>,
        IntT(4, TRUE), <<>>,
        {}, [x86_64 |-> 248, aarch64 |-> 217, riscv64 |-> 217]),
  Entry("adjtimex", <<PtrT>>,
        <<Arg("buf", 1, ItemT(FixedT(208)))>>,
        IntT(4, TRUE), <<>>,
        {"Clock"}, [x86_64 |-> 159, aarch64 |-> 171, riscv64 |-> 171]),
  Entry("alarm", <<IntT(4, FALSE)>>,
        <<Arg("seconds", 1, IntT(4, FALSE))>>,
        IntT(4, FALSE), <<>>,
        {}, [x86_64 |-> 37]),
  Entry("arch_prctl", <<IntT(4, TRUE), IntT(8, FALSE)>>,
        <<Arg("code", 1, IntT(4, TRUE)), Arg("addr", 2, IntT(8, FALSE))>>,
        IntT(4, TRUE), <<>>,
        {}, [x86_64 |-> 158]),
  Entry("bind", <<IntT(4, TRUE), PtrT, IntT(4, FALSE)>>,
        <<Arg("socketfd", 1, IntT(4, TRUE)), Arg("addr", 2, ItemT(FixedT(16))), Arg("addrlen", 3, IntT(4, FALSE))>>,
        IntT(4, TRUE), <<>>,
        {"Network"}, [x86_64 |-> 49, aarch64 |-> 200, riscv64 |-> 200]),
  Entry("bpf", <<IntT(4, TRUE), PtrT, IntT(4, FALSE)>>,
        <<Arg("cmd", 1, IntT(4, TRUE)), Arg("attr", 2, VecT(FixedT(1))), Arg("size", 3, IntT(4, FALSE))>>,
        IntT(4, TRUE), <<>>,
        {"Desc"}, [x86_64 |-> 321, aarch64 |-> 280, riscv64 |-> 280]),
  Entry("brk", <<PtrT>>,
        <<Arg("addr", 1, IntT(8, FALSE))>>,
        IntT(4, TRUE), <<>>,
        {"Memory"}, [x86_64 |-> 12, aarch64 |-> 214, riscv64 |-> 214]),
  Entry("cachestat", <<IntT(4, TRUE), PtrT, PtrT, IntT(4, FALSE)>>,
        <<Arg("fd", 1, IntT(4, TRUE)), Arg("cstat_range", 2, ItemT(FixedT(16))), Arg("cstat", 3, ItemT(FixedT(40))), Arg("flags", 4, IntT(4, FALSE))>>,
        IntT(4, TRUE), <<>>,
        {"Desc"}, [x86_64 |-> 451, aarch64 |-> 451, riscv64 |-> 451]),
  Entry("capget", <<PtrT, PtrT>>,
        <<>>,
        IntT(4, TRUE), <<Arg("hdrp", 1, ItemT(FixedT(8))), Arg("datap", 2, ItemT(FixedT(12)))>>,
        {"Creds"}, [x86_64 |-> 125, aarch64 |-> 90, riscv64 |-> 90]),
  Entry("capset", <<PtrT, PtrT>>,
        <<Arg("hdrp", 1, ItemT(FixedT(8))), Arg("datap", 2, ItemT(FixedT(12)))>>,
        IntT(4, TRUE), <<>>,
        {"Creds"}, [x86_64 |-> 126, aarch64 |-> 91, riscv64 |-> 91]),
  Entry("chdir", <<PtrT>>,
        <<Arg("path", 1, ItemT(StringT))>>,
        IntT(4, TRUE), <<>>,
        {"File"}, [x86_64 |-> 80, aarch64 |-> 49, riscv64 |-> 49]),
  Entry("chmod", <<PtrT, IntT(4, FALSE)>>,
        <<Arg("pathname", 1, ItemT(StringT)), Arg("mode", 2, IntT(4, FALSE))>>,
        IntT(4, TRUE), <<>>,
        {"File"}, [x86_64 |-> 90]),
  Entry("chown", <<PtrT, IntT(4, FALSE), IntT(4, FALSE)>>,
        <<Arg("pathname", 1, ItemT(StringT)), Arg("owner", 2, IntT(4, FALSE)), Arg("group", 3, IntT(4, FALSE))>>,
        IntT(4, TRUE), <<>>,
        {"File"}, [x86_64 |-> 92]),
  Entry("chroot", <<PtrT>>,
        <<Arg("path", 1, ItemT(StringT))>>,
        IntT(4, TRUE), <<>>,
        {"File"}, [x86_64 |-> 161, aarch64 |-> 51, riscv64 |-> 51]),
  Entry("clock_adjtime", <<IntT(4, TRUE), PtrT>>,
        <<Arg("clk_id", 1, IntT(4, TRUE)), Arg("buf", 2, ItemT(FixedT(208)))>>,
        IntT(4, TRUE), <<>>,
        {"Clock"}, [x86_64 |-> 305, aarch64 |-> 266, riscv64 |-> 266]),
  Entry("clock_getres", <<IntT(4, TRUE), PtrT>>,
        <<Arg("clk_id", 1, IntT(4, TRUE))>>,
        IntT(4, TRUE), <<Arg("res", 2, ItemT(FixedT(16)))>>,
        {"Clock"}, [x86_64 |-> 229, aarch64 |-> 114, riscv64 |-> 114]),
  Entry("clock_gettime", <<IntT(4, TRUE), PtrT>>,
        <<Arg("clk_id", 1, IntT(4, TRUE))>>,
        IntT(4, TRUE), <<Arg("tp", 2, ItemT(FixedT(16)))>>,
        {"Clock"}, [x86_64 |-> 228, aarch64 |-> 113, riscv64 |-> 113]),
  Entry("clock_nanosleep", <<IntT(4, TRUE), IntT(4, TRUE), PtrT, PtrT>>,
        <<Arg("clockid", 1, IntT(4, TRUE)), Arg("flags", 2, IntT(4, TRUE)), Arg("request", 3, ItemT(FixedT(16)))>>,
        IntT(4, TRUE), <<Arg("remain", 4, OptT(ItemT(FixedT(16))))>>,
        {}, [x86_64 |-> 230, aarch64 |-> 115, riscv64 |-> 115]),
  Entry("clock_settime", <<IntT(4, TRUE), PtrT>>,
        <<Arg("clk_id", 1, IntT(4, TRUE)), Arg("tp", 2, ItemT(FixedT(16)))>>,
        IntT(4, TRUE), <<>>,
        {"Clock"}, [x86_64 |-> 227, aarch64 |-> 112, riscv64 |-> 112]),
  Entry("clone", <<IntT(8, FALSE), IntT(8, FALSE), PtrT, PtrT, IntT(8, FALSE)>>,
        <<Arg("flags", 1, IntT(8, FALSE)), Arg("stack", 2, IntT(8, FALSE)), Arg("tls", 5, IntT(8, FALSE))>>,
        IntT(8, TRUE), <<Arg("parent_tid", 3, ItemT(FixedT(4))), Arg("child_tid", 4, ItemT(FixedT(4)))>>,
        {"Process"}, [x86_64 |-> 56]),
  Entry("clone", <<IntT(8, FALSE), IntT(8, FALSE), PtrT, IntT(8, FALSE), PtrT>>,
        <<Arg("flags", 1, IntT(8, FALSE)), Arg("stack", 2, IntT(8, FALSE)), Arg("tls", 4, IntT(8, FALSE))>>,
        IntT(8, TRUE), <<Arg("parent_tid", 3, ItemT(FixedT(4))), Arg("child_tid", 5, ItemT(FixedT(4)))>>,
        {"Process"}, [aarch64 |-> 220, riscv64 |-> 220]),
  Entry("clone3", <<PtrT, IntT(8, FALSE)>>,
        <<Arg("cl_args", 1, ItemT(FixedT(88))), Arg("size", 2, IntT(8, FALSE))>>,
        IntT(4, TRUE), <<>>,
        {"Process"}, [x86_64 |-> 435, aarch64 |-> 435, riscv64 |-> 435]),
  Entry("close", <<IntT(4, TRUE)>>,
        <<Arg("fd", 1, IntT(4, TRUE))>>,
        IntT(4, TRUE), <<>>,
        {"Desc"}, [x86_64 |-> 3, aarch64 |-> 57, riscv64 |-> 57]),
  Entry("close_range", <<IntT(4, FALSE), IntT(4, FALSE), IntT(4, FALSE)>>,
        <<Arg("first", 1, IntT(4, FALSE)), Arg("last", 2, IntT(4, FALSE)), Arg("flags", 3, IntT(4, FALSE))>>,
        IntT(4, TRUE), <<>>,
        {}, [x86_64 |-> 436, aarch64 |-> 436, riscv64 |-> 436]),
  Entry("connect", <<IntT(4, TRUE), PtrT, IntT(4, FALSE)>>,
        <<Arg("sockfd", 1, IntT(4, TRUE)), Arg("addr", 2, ItemT(FixedT(16))), Arg("addrlen", 3, IntT(4, FALSE))>>,
        IntT(4, TRUE), <<>>,
        {"Network"}, [x86_64 |-> 42, aarch64 |-> 203, riscv64 |-> 203]),
  Entry("copy_file_range", <<IntT(4, TRUE), PtrT, IntT(4, TRUE), PtrT, IntT(8, FALSE), IntT(4, FALSE)>>,
        <<Arg("fd_in", 1, IntT(4, TRUE)), Arg("off_in", 2, ItemT(FixedT(8))), Arg("fd_out", 3, IntT(4, TRUE)), Arg("off_out", 4, ItemT(FixedT(8))), Arg("len", 5, IntT(8, FALSE)), Arg("flags", 6, IntT(4, FALSE))>>,
        IntT(8, TRUE), <<Arg("off_in", 2, ItemT(FixedT(8))), Arg("off_out", 4, ItemT(FixedT(8)))>>,
        {"Desc"}, [x86_64 |-> 326, aarch64 |-> 285, riscv64 |-> 285]),
  Entry("creat", <<PtrT, IntT(4, FALSE)>>,
        <<Arg("pathname", 1, ItemT(StringT)), Arg("mode", 2, IntT(4, FALSE))>>,
        IntT(4, TRUE), <<>>,
        {"Desc", "File"}, [x86_64 |-> 85]),
  Entry("delete_module", <<PtrT, IntT(4, FALSE)>>,
        <<Arg("name", 1, ItemT(StringT)), Arg("flags", 2, IntT(4, FALSE))>>,
        IntT(4, TRUE), <<>>,
        {}, [x86_64 |-> 176, aarch64 |-> 106, riscv64 |-> 106]),
  Entry("dup", <<IntT(4, TRUE)>>,
        <<Arg("oldfd", 1, IntT(4, TRUE))>>,
        IntT(4, TRUE), <<>>,
        {"Desc"}, [x86_64 |-> 32, aarch64 |-> 23, riscv64 |-> 23]),
  Entry("dup2", <<IntT(4, TRUE), IntT(4, TRUE)>>,
        <<Arg("oldfd", 1, IntT(4, TRUE)), Arg("newfd", 2, IntT(4, TRUE))>>,
        IntT(4, TRUE), <<>>,
        {"Desc"}, [x86_64 |-> 33, aarch64 |-> 24, riscv64 |-> 24]),
  Entry("dup3", <<IntT(4, TRUE), IntT(4, TRUE), IntT(4, TRUE)>>,
        <<Arg("oldfd", 1, IntT(4, TRUE)), Arg("newfd", 2, IntT(4, TRUE)), Arg("flags", 3, IntT(4, TRUE))>>,
        IntT(4, TRUE), <<>>,
        {"Desc"}, [x86_64 |-> 292, aarch64 |-> 24, riscv64 |-> 24]),
  Entry("epoll_create", <<IntT(4, TRUE)>>,
        <<Arg("size", 1, IntT(4, TRUE))>>,
        IntT(4, TRUE), <<>>,
        {"Desc"}, [x86_64 |-> 213]),
  Entry("epoll_create1", <<IntT(4, TRUE)>>,
        <<Arg("flags", 1, IntT(4, TRUE))>>,
        IntT(4, TRUE), <<>>,
        {"Desc"}, [x86_64 |-> 291, aarch64 |-> 20, riscv64 |-> 20]),
  Entry("epoll_ctl", <<IntT(4, TRUE), IntT(4, TRUE), IntT(4, TRUE), PtrT>>,
        <<Arg("epfd", 1, IntT(4, TRUE)), Arg("op", 2, IntT(4, TRUE)), Arg("fd", 3, IntT(4, TRUE)), Arg("event", 4, ItemT(FixedT(12)))>>,
        IntT(4, TRUE), <<>>,
        {"Desc"}, [x86_64 |-> 233, aarch64 |-> 21, riscv64 |-> 21]),
  Entry("epoll_pwait", <<IntT(4, TRUE), PtrT, IntT(4, TRUE), IntT(4, TRUE), PtrT>>,
        <<Arg("epfd", 1, IntT(4, TRUE)), Arg("maxevents", 3, IntT(4, TRUE)), Arg("timeout", 4, IntT(4, TRUE)), Arg("sigmask", 5, ItemT(FixedT(128)))>>,
        IntT(4, TRUE), <<Arg("events", 2, NoImplT)>>,
        {"Desc"}, [x86_64 |-> 281, aarch64 |-> 22, riscv64 |-> 22]),
  Entry("epoll_pwait2", <<IntT(4, TRUE), PtrT, IntT(4, TRUE), PtrT, PtrT>>,
        <<Arg("epfd", 1, IntT(4, TRUE)), Arg("maxevents", 3, IntT(4, TRUE)), Arg("timeout", 4, OptT(ItemT(FixedT(16)))), Arg("sigmask", 5, ItemT(FixedT(128)))>>,
        IntT(4, TRUE), <<Arg("events", 2, NoImplT)>>,
        {"Desc"}, [x86_64 |-> 441, aarch64 |-> 441, riscv64 |-> 441]),
  Entry("epoll_wait", <<IntT(4, TRUE), PtrT, IntT(4, TRUE), IntT(4, TRUE)>>,
        <<Arg("epfd", 1, IntT(4, TRUE)), Arg("maxevents", 3, IntT(4, TRUE)), Arg("timeout", 4, IntT(4, TRUE))>>,
        IntT(4, TRUE), <<Arg("events", 2, NoImplT)>>,
        {"Desc"}, [x86_64 |-> 232]),
  Entry("eventfd", <<IntT(4, FALSE)>>,
        <<Arg("initval", 1, IntT(4, FALSE))>>,
        IntT(4, TRUE), <<>>,
        {"Desc"}, [x86_64 |-> 284]),
  Entry("eventfd2", <<IntT(4, FALSE), IntT(4, TRUE)>>,
        <<Arg("initval", 1, IntT(4, FALSE)), Arg("flags", 2, IntT(4, TRUE))>>,
        IntT(4, TRUE), <<>>,
        {"Desc"}, [x86_64 |-> 290, aarch64 |-> 19, riscv64 |-> 19]),
  Entry("execve", <<PtrT, PtrT, PtrT>>,
        <<Arg("filename", 1, ItemT(StringT)), Arg("argv", 2, OptT(VecT(StringT))), Arg("envp", 3, OptT(VecT(StringT)))>>,
        IntT(4, TRUE), <<>>,
        {"File", "Process"}, [x86_64 |-> 59, aarch64 |-> 221, riscv64 |-> 221]),
  Entry("execveat", <<IntT(4, TRUE), PtrT, PtrT, PtrT, IntT(4, TRUE)>>,
        <<Arg("dirfd", 1, IntT(4, TRUE)), Arg("pathname", 2, ItemT(StringT)), Arg("argv", 3, OptT(VecT(StringT))), Arg("envp", 4, OptT(VecT(StringT))), Arg("flags", 5, IntT(4, TRUE))>>,
        IntT(4, TRUE), <<>>,
        {"Desc", "File", "Process"}, [x86_64 |-> 322, aarch64 |-> 281, riscv64 |-> 281]),
  Entry("exit", <<IntT(4, TRUE)>>,
        <<Arg("status", 1, IntT(4, TRUE))>>,
        UnitT, <<>>,
        {"Process"}, [x86_64 |-> 60, aarch64 |-> 93, riscv64 |-> 93]),
  Entry("exit_group", <<IntT(4, TRUE)>>,
        <<Arg("status", 1, IntT(4, TRUE))>>,
        UnitT, <<>>,
        {"Process"}, [x86_64 |-> 231, aarch64 |-> 94, riscv64 |-> 94]),
  Entry("faccessat", <<IntT(4, TRUE), PtrT, IntT(4, TRUE)>>,
        <<Arg("dirfd", 1, IntT(4, TRUE)), Arg("pathname", 2, ItemT(StringT)), Arg("mode", 3, IntT(4, TRUE))>>,
        IntT(4, TRUE), <<>>,
        {"Desc", "File"}, [x86_64 |-> 269, aarch64 |-> 48, riscv64 |-> 48]),
  Entry("faccessat2", <<IntT(4, TRUE), PtrT, IntT(4, TRUE), IntT(4, TRUE)>>,
        <<Arg("dirfd", 1, IntT(4, TRUE)), Arg("pathname", 2, ItemT(StringT)), Arg("mode", 3, IntT(4, TRUE)), Arg("flags", 4, IntT(4, TRUE))>>,
        IntT(4, TRUE), <<>>,
        {"Desc", "File"}, [x86_64 |-> 439, aarch64 |-> 439, riscv64 |-> 439]),
  Entry("fadvise64", <<IntT(4, TRUE), IntT(8, TRUE), IntT(8, FALSE), IntT(4, TRUE)>>,
        <<Arg("fd", 1, IntT(4, TRUE)), Arg("offset", 2, IntT(8, TRUE)), Arg("len", 3, IntT(8, FALSE)), Arg("advice", 4, IntT(4, TRUE))>>,
        IntT(4, TRUE), <<>>,
        {"Desc"}, [x86_64 |-> 221, aarch64 |-> 223, riscv64 |-> 223]),
  Entry("fallocate", <<IntT(4, TRUE), IntT(4, TRUE), IntT(8, TRUE), IntT(8, TRUE)>>,
        <<Arg("fd", 1, IntT(4, TRUE)), Arg("mode", 2, IntT(4, TRUE)), Arg("offset", 3, IntT(8, TRUE)), Arg("len", 4, IntT(8, TRUE))>>,
        IntT(4, TRUE), <<>>,
        {"Desc"}, [x86_64 |-> 285, aarch64 |-> 47, riscv64 |-> 47]),
  Entry("fanotify_init", <<IntT(4, FALSE), IntT(4, FALSE)>>,
        <<Arg("flags", 1, IntT(4, FALSE)), Arg("event_f_flags", 2, IntT(4, FALSE))>>,
        IntT(4, TRUE), <<>>,
        {"Desc"}, [x86_64 |-> 300, aarch64 |-> 262, riscv64 |-> 262]),
  Entry("fanotify_mark", <<IntT(4, TRUE), IntT(4, FALSE), IntT(8, FALSE), IntT(4, TRUE), PtrT>>,
        <<Arg("fanotify_fd", 1, IntT(4, TRUE)), Arg("flags", 2, IntT(4, FALSE)), Arg("mask", 3, IntT(8, FALSE)), Arg("dirfd", 4, IntT(4, TRUE)), Arg("pathname", 5, OptT(ItemT(StringT)))>>,
        IntT(4, TRUE), <<>>,
        {"Desc", "File"}, [x86_64 |-> 301, aarch64 |-> 263, riscv64 |-> 263]),
  Entry("fchdir", <<IntT(4, TRUE)>>,
        <<Arg("fd", 1, IntT(4, TRUE))>>,
        IntT(4, TRUE), <<>>,
        {"Desc"}, [x86_64 |-> 81, aarch64 |-> 50, riscv64 |-> 50]),
  Entry("fchmod", <<IntT(4, TRUE), IntT(4, FALSE)>>,
        <<Arg("fd", 1, IntT(4, TRUE)), Arg("mode", 2, IntT(4, FALSE))>>,
        IntT(4, TRUE), <<>>,
        {"Desc"}, [x86_64 |-> 91, aarch64 |-> 52, riscv64 |-> 52]),
  Entry("fchmodat", <<IntT(4, TRUE), PtrT, IntT(4, FALSE)>>,
        <<Arg("dirfd", 1, IntT(4, TRUE)), Arg("pathname", 2, ItemT(StringT)), Arg("mode", 3, IntT(4, FALSE))>>,
        IntT(4, TRUE), <<>>,
        {"Desc", "File"}, [x86_64 |-> 268, aarch64 |-> 53, riscv64 |-> 53]),
  Entry("fchmodat2", <<IntT(4, TRUE), PtrT, IntT(4, FALSE), IntT(4, TRUE)>>,
        <<Arg("dirfd", 1, IntT(4, TRUE)), Arg("pathname", 2, ItemT(StringT)), Arg("mode", 3, IntT(4, FALSE)), Arg("flags", 4, IntT(4, TRUE))>>,
        IntT(4, TRUE), <<>>,
        {"Desc", "File"}, [x86_64 |-> 452, aarch64 |-> 452, riscv64 |-> 452]),
  Entry("fchown", <<IntT(4, TRUE), IntT(4, FALSE), IntT(4, FALSE)>>,
        <<Arg("fd", 1, IntT(4, TRUE)), Arg("owner", 2, IntT(4, FALSE)), Arg("group", 3, IntT(4, FALSE))>>,
        IntT(4, TRUE), <<>>,
        {"Desc"}, [x86_64 |-> 93, aarch64 |-> 55, riscv64 |-> 55]),
  Entry("fchownat", <<IntT(4, TRUE), PtrT, IntT(4, FALSE), IntT(4, FALSE), IntT(4, TRUE)>>,
        <<Arg("dirfd", 1, IntT(4, TRUE)), Arg("pathname", 2, ItemT(StringT)), Arg("owner", 3, IntT(4, FALSE)), Arg("group", 4, IntT(4, FALSE)), Arg("flags", 5, IntT(4, TRUE))>>,
        IntT(4, TRUE), <<>>,
        {"Desc", "File"}, [x86_64 |-> 260, aarch64 |-> 54, riscv64 |-> 54]),
  Entry("fcntl", <<IntT(4, TRUE), IntT(4, TRUE), IntT(8, FALSE)>>,
        <<Arg("fd", 1, IntT(4, TRUE)), Arg("cmd", 2, IntT(4, TRUE)), Arg("arg", 3, IntT(8, FALSE))>>,
        IntT(4, TRUE), <<>>,
        {"Desc"}, [x86_64 |-> 72, aarch64 |-> 25, riscv64 |-> 25]),
  Entry("fdatasync", <<IntT(4, TRUE)>>,
        <<Arg("fd", 1, IntT(4, TRUE))>>,
        IntT(4, TRUE), <<>>,
        {"Desc"}, [x86_64 |-> 75, aarch64 |-> 83, riscv64 |-> 83]),
  Entry("fgetxattr", <<IntT(4, TRUE), PtrT, PtrT, IntT(8, FALSE)>>,
        <<Arg("fd", 1, IntT(4, TRUE)), Arg("name", 2, ItemT(StringT)), Arg("value", 3, ItemT(StringT)), Arg("size", 4, IntT(8, FALSE))>>,
        IntT(8, TRUE), <<>>,
        {"Desc"}, [x86_64 |-> 193, aarch64 |-> 10, riscv64 |-> 10]),
  Entry("finit_module", <<IntT(4, TRUE), PtrT, IntT(4, TRUE)>>,
        <<Arg("fd", 1, IntT(4, TRUE)), Arg("param_values", 2, ItemT(StringT)), Arg("flags", 3, IntT(4, TRUE))>>,
        IntT(4, TRUE), <<>>,
        {"Desc"}, [x86_64 |-> 313, aarch64 |-> 273, riscv64 |-> 273]),
  Entry("flistxattr", <<IntT(4, TRUE), PtrT, IntT(8, FALSE)>>,
        <<Arg("fd", 1, IntT(4, TRUE)), Arg("list", 2, OptT(ItemT(StringT))), Arg("size", 3, IntT(8, FALSE))>>,
        IntT(8, TRUE), <<>>,
        {"Desc"}, [x86_64 |-> 196, aarch64 |-> 13, riscv64 |-> 13]),
  Entry("flock", <<IntT(4, TRUE), IntT(4, TRUE)>>,
        <<Arg("fd", 1, IntT(4, TRUE)), Arg("operation", 2, IntT(4, TRUE))>>,
        IntT(4, TRUE), <<>>,
        {"Desc"}, [x86_64 |-> 73, aarch64 |-> 32, riscv64 |-> 32]),
  Entry("fork", <<>>,
        <<>>,
        IntT(4, TRUE), <<>>,
        {"Process"}, [x86_64 |-> 57]),
  Entry("fremovexattr", <<IntT(4, TRUE), PtrT>>,
        <<Arg("fd", 1, IntT(4, TRUE)), Arg("name", 2, ItemT(StringT))>>,
        IntT(4, TRUE), <<>>,
        {"Desc"}, [x86_64 |-> 199, aarch64 |-> 16, riscv64 |-> 16]),
  Entry("fsconfig", <<IntT(4, TRUE), IntT(4, FALSE), PtrT, PtrT, IntT(4, TRUE)>>,
        <<Arg("fd", 1, IntT(4, TRUE)), Arg("cmd", 2, IntT(4, FALSE)), Arg("key", 3, ItemT(StringT)), Arg("value", 4, ItemT(StringT)), Arg("aux", 5, IntT(4, TRUE))>>,
        IntT(4, TRUE), <<>>,
        {"Desc", "File"}, [x86_64 |-> 431, aarch64 |-> 431, riscv64 |-> 431]),
  Entry("fsetxattr", <<IntT(4, TRUE), PtrT, PtrT, IntT(8, FALSE), IntT(4, TRUE)>>,
        <<Arg("fd", 1, IntT(4, TRUE)), Arg("name", 2, ItemT(StringT)), Arg("value", 3, ItemT(StringT)), Arg("size", 4, IntT(8, FALSE)), Arg("flags", 5, IntT(4, TRUE))>>,
        IntT(4, TRUE), <<>>,
        {"Desc"}, [x86_64 |-> 190, aarch64 |-> 7, riscv64 |-> 7]),
  Entry("fsmount", <<IntT(4, TRUE), IntT(4, FALSE), IntT(4, FALSE)>>,
        <<Arg("fd", 1, IntT(4, TRUE)), Arg("flags", 2, IntT(4, FALSE)), Arg("ms_flags", 3, IntT(4, FALSE))>>,
        IntT(4, TRUE), <<>>,
        {"Desc"}, [x86_64 |-> 432, aarch64 |-> 432, riscv64 |-> 432]),
  Entry("fsopen", <<PtrT, IntT(4, FALSE)>>,
        <<Arg("fsname", 1, ItemT(StringT)), Arg("flags", 2, IntT(4, FALSE))>>,
        IntT(4, TRUE), <<>>,
        {"Desc"}, [x86_64 |-> 430, aarch64 |-> 430, riscv64 |-> 430]),
  Entry("fspick", <<IntT(4, TRUE), PtrT, IntT(4, FALSE)>>,
        <<Arg("dirfd", 1, IntT(4, TRUE)), Arg("pathname", 2, ItemT(StringT)), Arg("flags", 3, IntT(4, FALSE))>>,
        IntT(4, TRUE), <<>>,
        {"Desc", "File"}, [x86_64 |-> 433, aarch64 |-> 433, riscv64 |-> 433]),
  Entry("fstat", <<IntT(4, TRUE), PtrT>>,
        <<Arg("fd", 1, IntT(4, TRUE))>>,
        IntT(4, TRUE), <<Arg("statbuf", 2, ItemT(FixedT(144)))>>,
        {"Desc", "FStat", "StatLike"}, [x86_64 |-> 5, aarch64 |-> 80, riscv64 |-> 80]),
  Entry("fstatfs", <<IntT(4, TRUE), PtrT>>,
        <<Arg("fd", 1, IntT(4, TRUE))>>,
        IntT(4, TRUE), <<Arg("buf", 2, ItemT(FixedT(120)))>>,
        {"Desc", "FStatFs", "StatFsLike"}, [x86_64 |-> 138, aarch64 |-> 44, riscv64 |-> 44]),
  Entry("fsync", <<IntT(4, TRUE)>>,
        <<Arg("fd", 1, IntT(4, TRUE))>>,
        IntT(4, TRUE), <<>>,
        {"Desc"}, [x86_64 |-> 74, aarch64 |-> 82, riscv64 |-> 82]),
  Entry("ftruncate", <<IntT(4, TRUE), IntT(8, TRUE)>>,
        <<Arg("fd", 1, IntT(4, TRUE)), Arg("length", 2, IntT(8, TRUE))>>,
        IntT(4, TRUE), <<>>,
        {"Desc"}, [x86_64 |-> 77, aarch64 |-> 46, riscv64 |-> 46]),
  Entry("futex", <<PtrT, IntT(4, TRUE), IntT(4, FALSE), IntT(8, FALSE), PtrT, IntT(4, FALSE)>>,
        <<Arg("uaddr", 1, ItemT(FixedT(4))), Arg("futex_op", 2, IntT(4, TRUE)), Arg("val", 3, IntT(4, FALSE)), Arg("val2", 4, IntT(8, FALSE)), Arg("uaddr2", 5, ItemT(FixedT(4))), Arg("val3", 6, IntT(4, FALSE))>>,
        IntT(8, TRUE), <<Arg("uaddr", 1, ItemT(FixedT(4))), Arg("uaddr2", 5, ItemT(FixedT(4)))>>,
        {}, [x86_64 |-> 202, aarch64 |-> 98, riscv64 |-> 98]),
  Entry("futex_requeue", <<PtrT, IntT(4, FALSE), IntT(4, TRUE), IntT(4, TRUE)>>,
        <<Arg("waiters", 1, NoImplT), Arg("flags", 2, IntT(4, FALSE)), Arg("nr_wake", 3, IntT(4, TRUE)), Arg("nr_requeue", 4, IntT(4, TRUE))>>,
        IntT(8, TRUE), <<Arg("waiters", 1, NoImplT)>>,
        {}, [x86_64 |-> 456, aarch64 |-> 456, riscv64 |-> 456]),
  Entry("futex_wait", <<PtrT, IntT(8, FALSE), IntT(8, FALSE), IntT(4, FALSE), PtrT, IntT(4, TRUE)>>,
        <<Arg("uaddr", 1, ItemT(FixedT(4))), Arg("val", 2, IntT(8, FALSE)), Arg("mask", 3, IntT(8, FALSE)), Arg("flags", 4, IntT(4, FALSE)), Arg("timespec", 5, ItemT(FixedT(16))), Arg("clockid", 6, IntT(4, TRUE))>>,
        IntT(8, TRUE), <<Arg("uaddr", 1, ItemT(FixedT(4)))>>,
        {}, [x86_64 |-> 455, aarch64 |-> 455, riscv64 |-> 455]),
  Entry("futex_waitv", <<PtrT, IntT(4, FALSE), IntT(4, FALSE), PtrT, IntT(4, TRUE)>>,
        <<Arg("waiters", 1, NoImplT), Arg("nr_futexes", 2, IntT(4, FALSE)), Arg("flags", 3, IntT(4, FALSE)), Arg("timeout", 4, ItemT(FixedT(16))), Arg("clockid", 5, IntT(4, TRUE))>>,
        IntT(8, TRUE), <<Arg("waiters", 1, NoImplT)>>,
        {}, [x86_64 |-> 449, aarch64 |-> 449, riscv64 |-> 449]),
  Entry("futex_wake", <<PtrT, IntT(8, FALSE), IntT(4, TRUE), IntT(4, FALSE)>>,
        <<Arg("uaddr", 1, ItemT(FixedT(4))), Arg("mask", 2, IntT(8, FALSE)), Arg("nr", 3, IntT(4, TRUE)), Arg("flags", 4, IntT(4, FALSE))>>,
        IntT(8, TRUE), <<Arg("uaddr", 1, ItemT(FixedT(4)))>>,
        {}, [x86_64 |-> 454, aarch64 |-> 454, riscv64 |-> 454]),
  Entry("futimesat", <<IntT(4, TRUE), PtrT, PtrT>>,
        <<Arg("dirfd", 1, IntT(4, TRUE)), Arg("pathname", 2, ItemT(StringT)), Arg("times", 3, Array2T(FixedT(16)))>>,
        IntT(4, TRUE), <<>>,
        {"Desc", "File"}, [x86_64 |-> 261]),
  Entry("get_mempolicy", <<PtrT, PtrT, IntT(8, FALSE), IntT(8, FALSE), IntT(8, FALSE)>>,
        <<Arg("maxnode", 3, IntT(8, FALSE)), Arg("addr", 4, IntT(8, FALSE)), Arg("flags", 5, IntT(8, FALSE))>>,
        IntT(8, TRUE), <<Arg("mode", 1, OptT(ItemT(FixedT(4)))), Arg("nodemask", 2, NoImplT)>>,
        {"Memory"}, [x86_64 |-> 239, aarch64 |-> 236, riscv64 |-> 236]),
  Entry("get_robust_list", <<IntT(4, TRUE), PtrT, PtrT>>,
        <<Arg("pid", 1, IntT(4, TRUE)), Arg("head_ptr", 2, ItemT(FixedT(8))), Arg("len_ptr", 3, IntT(8, FALSE))>>,
        IntT(8, TRUE), <<>>,
        {}, [x86_64 |-> 274, aarch64 |-> 100, riscv64 |-> 100]),
  Entry("get_thread_area", <<PtrT>>,
        <<Arg("u_info", 1, ItemT(FixedT(16)))>>,
        IntT(4, TRUE), <<Arg("u_info", 1, ItemT(FixedT(16)))>>,
        {}, [x86_64 |-> 211]),
  Entry("getcpu", <<PtrT, PtrT>>,
        <<Arg("cpu", 1, OptT(ItemT(FixedT(4)))), Arg("node", 2, OptT(ItemT(FixedT(4))))>>,
        IntT(4, TRUE), <<>>,
        {}, [x86_64 |-> 309, aarch64 |-> 168, riscv64 |-> 168]),
  Entry("getcwd", <<PtrT, IntT(8, FALSE)>>,
        <<Arg("size", 2, IntT(8, FALSE))>>,
        IntT(8, TRUE), <<Arg("buf", 1, ItemT(StringT))>>,
        {"File"}, [x86_64 |-> 79, aarch64 |-> 17, riscv64 |-> 17]),
  Entry("getdents", <<IntT(4, TRUE), PtrT, IntT(4, FALSE)>>,
        <<Arg("fd", 1, IntT(4, TRUE)), Arg("count", 3, IntT(4, FALSE))>>,
        IntT(4, TRUE), <<Arg("dirp", 2, NoImplT)>>,
        {"Desc"}, [x86_64 |-> 78]),
  Entry("getdents64", <<IntT(4, TRUE), PtrT, IntT(4, FALSE)>>,
        <<Arg("fd", 1, IntT(4, TRUE)), Arg("count", 3, IntT(4, FALSE))>>,
        IntT(4, TRUE), <<Arg("dirp", 2, NoImplT)>>,
        {"Desc"}, [x86_64 |-> 217, aarch64 |-> 61, riscv64 |-> 61]),
  Entry("getegid", <<>>,
        <<>>,
        IntT(4, FALSE), <<>>,
        {"Creds", "Pure"}, [x86_64 |-> 108, aarch64 |-> 177, riscv64 |-> 177]),
  Entry("geteuid", <<>>,
        <<>>,
        IntT(4, FALSE), <<>>,
        {"Creds", "Pure"}, [x86_64 |-> 107, aarch64 |-> 175, riscv64 |-> 175]),
  Entry("getgid", <<>>,
        <<>>,
        IntT(4, FALSE), <<>>,
        {"Creds", "Pure"}, [x86_64 |-> 104, aarch64 |-> 176, riscv64 |-> 176]),
  Entry("getgroups", <<IntT(4, TRUE), PtrT>>,
        <<Arg("size", 1, IntT(4, TRUE))>>,
        IntT(4, TRUE), <<Arg("list", 2, NoImplT)>>,
        {"Creds"}, [x86_64 |-> 115, aarch64 |-> 158, riscv64 |-> 158]),
  Entry("getitimer", <<IntT(4, TRUE), PtrT>>,
        <<Arg("which", 1, IntT(4, TRUE))>>,
        IntT(4, TRUE), <<Arg("value", 2, ItemT(FixedT(32)))>>,
        {}, [x86_64 |-> 36, aarch64 |-> 102, riscv64 |-> 102]),
  Entry("getpeername", <<IntT(4, TRUE), PtrT, PtrT>>,
        <<Arg("sockfd", 1, IntT(4, TRUE)), Arg("addr", 2, ItemT(FixedT(16))), Arg("addrlen", 3, ItemT(FixedT(4)))>>,
        IntT(4, TRUE), <<Arg("addr", 2, ItemT(FixedT(16))), Arg("addrlen", 3, ItemT(FixedT(4)))>>,
        {"Network"}, [x86_64 |-> 52, aarch64 |-> 205, riscv64 |-> 205]),
  Entry("getpgid", <<IntT(4, TRUE)>>,
        <<Arg("pid", 1, IntT(4, TRUE))>>,
        IntT(4, TRUE), <<>>,
        {}, [x86_64 |-> 121, aarch64 |-> 155, riscv64 |-> 155]),
  Entry("getpgrp", <<>>,
        <<>>,
        IntT(4, TRUE), <<>>,
        {"Pure"}, [x86_64 |-> 111]),
  Entry("getpid", <<>>,
        <<>>,
        IntT(4, TRUE), <<>>,
        {"Pure"}, [x86_64 |-> 39, aarch64 |-> 172, riscv64 |-> 172]),
  Entry("getppid", <<>>,
        <<>>,
        IntT(4, TRUE), <<>>,
        {"Pure"}, [x86_64 |-> 110, aarch64 |-> 173, riscv64 |-> 173]),
  Entry("getpriority", <<IntT(4, TRUE), IntT(4, FALSE)>>,
        <<Arg("which", 1, IntT(4, TRUE)), Arg("who", 2, IntT(4, FALSE))>>,
        IntT(4, TRUE), <<>>,
        {}, [x86_64 |-> 140, aarch64 |-> 141, riscv64 |-> 141]),
  Entry("getrandom", <<PtrT, IntT(8, FALSE), IntT(4, FALSE)>>,
        <<Arg("buflen", 2, IntT(8, FALSE)), Arg("flags", 3, IntT(4, FALSE))>>,
        IntT(8, TRUE), <<Arg("buf", 1, VecT(FixedT(1)))>>,
        {}, [x86_64 |-> 318, aarch64 |-> 278, riscv64 |-> 278]),
  Entry("getresgid", <<PtrT, PtrT, PtrT>>,
        <<>>,
        IntT(4, TRUE), <<Arg("rgid", 1, ItemT(FixedT(4))), Arg("egid", 2, ItemT(FixedT(4))), Arg("sgid", 3, ItemT(FixedT(4)))>>,
        {"Creds"}, [x86_64 |-> 120, aarch64 |-> 150, riscv64 |-> 150]),
  Entry("getresuid", <<PtrT, PtrT, PtrT>>,
        <<>>,
        IntT(4, TRUE), <<Arg("ruid", 1, ItemT(FixedT(4))), Arg("euid", 2, ItemT(FixedT(4))), Arg("suid", 3, ItemT(FixedT(4)))>>,
        {"Creds"}, [x86_64 |-> 118, aarch64 |-> 148, riscv64 |-> 148]),
  Entry("getrlimit", <<IntT(4, TRUE), PtrT>>,
        <<Arg("resource", 1, IntT(4, TRUE))>>,
        IntT(4, TRUE), <<Arg("rlim", 2, ItemT(FixedT(16)))>>,
        {}, [x86_64 |-> 97, aarch64 |-> 163, riscv64 |-> 163]),
  Entry("getrusage", <<IntT(4, TRUE), PtrT>>,
        <<Arg("who", 1, IntT(4, TRUE))>>,
        IntT(4, TRUE), <<Arg("usage", 2, ItemT(FixedT(144)))>>,
        {}, [x86_64 |-> 98, aarch64 |-> 165, riscv64 |-> 165]),
  Entry("getsid", <<IntT(4, TRUE)>>,
        <<Arg("pid", 1, IntT(4, TRUE))>>,
        IntT(4, TRUE), <<>>,
        {}, [x86_64 |-> 124, aarch64 |-> 156, riscv64 |-> 156]),
  Entry("getsockname", <<IntT(4, TRUE), PtrT, PtrT>>,
        <<Arg("sockfd", 1, IntT(4, TRUE)), Arg("addrlen", 3, ItemT(FixedT(4)))>>,
        IntT(4, TRUE), <<Arg("addr", 2, ItemT(FixedT(16))), Arg("addrlen", 3, ItemT(FixedT(4)))>>,
        {"Network"}, [x86_64 |-> 51, aarch64 |-> 204, riscv64 |-> 204]),
  Entry("getsockopt", <<IntT(4, TRUE), IntT(4, TRUE), IntT(4, TRUE), PtrT, PtrT>>,
        <<Arg("sockfd", 1, IntT(4, TRUE)), Arg("level", 2, IntT(4, TRUE)), Arg("optname", 3, IntT(4, TRUE)), Arg("optlen", 5, ItemT(FixedT(4)))>>,
        IntT(4, TRUE), <<Arg("optval", 4, VecT(FixedT(1))), Arg("optlen", 5, ItemT(FixedT(4)))>>,
        {"Network"}, [x86_64 |-> 55, aarch64 |-> 209, riscv64 |-> 209]),
  Entry("gettid", <<>>,
        <<>>,
        IntT(4, TRUE), <<>>,
        {"Pure"}, [x86_64 |-> 186, aarch64 |-> 178, riscv64 |-> 178]),
  Entry("gettimeofday", <<PtrT, PtrT>>,
        <<>>,
        IntT(4, TRUE), <<Arg("tv", 1, ItemT(FixedT(16))), Arg("tz", 2, OptT(ItemT(FixedT(8))))>>,
        {"Clock"}, [x86_64 |-> 96, aarch64 |-> 169, riscv64 |-> 169]),
  Entry("getuid", <<>>,
        <<>>,
        IntT(4, FALSE), <<>>,
        {"Creds", "Pure"}, [x86_64 |-> 102, aarch64 |-> 174, riscv64 |-> 174]),
  Entry("getxattr", <<PtrT, PtrT, PtrT, IntT(8, FALSE)>>,
        <<Arg("pathname", 1, ItemT(StringT)), Arg("name", 2, ItemT(StringT)), Arg("size", 4, IntT(8, FALSE))>>,
        IntT(8, TRUE), <<Arg("value", 3, VecT(FixedT(1)))>>,
        {"File"}, [x86_64 |-> 191, aarch64 |-> 8, riscv64 |-> 8]),
  Entry("init_module", <<PtrT, IntT(8, FALSE), PtrT>>,
        <<Arg("module_image", 1, VecT(FixedT(1))), Arg("len", 2, IntT(8, FALSE)), Arg("param_values", 3, ItemT(StringT))>>,
        IntT(4, TRUE), <<>>,
        {}, [x86_64 |-> 175, aarch64 |-> 105, riscv64 |-> 105]),
  Entry("inotify_add_watch", <<IntT(4, TRUE), PtrT, IntT(4, FALSE)>>,
        <<Arg("fd", 1, IntT(4, TRUE)), Arg("pathname", 2, ItemT(StringT)), Arg("mask", 3, IntT(4, FALSE))>>,
        IntT(4, TRUE), <<>>,
        {"Desc", "File"}, [x86_64 |-> 254, aarch64 |-> 27, riscv64 |-> 27]),
  Entry("inotify_init", <<>>,
        <<>>,
        IntT(4, TRUE), <<>>,
        {"Desc"}, [x86_64 |-> 253]),
  Entry("inotify_init1", <<IntT(4, TRUE)>>,
        <<Arg("flags", 1, IntT(4, TRUE))>>,
        IntT(4, TRUE), <<>>,
        {"Desc"}, [x86_64 |-> 294, aarch64 |-> 26, riscv64 |-> 26]),
  Entry("inotify_rm_watch", <<IntT(4, TRUE), IntT(4, TRUE)>>,
        <<Arg("fd", 1, IntT(4, TRUE)), Arg("wd", 2, IntT(4, TRUE))>>,
        IntT(4, TRUE), <<>>,
        {"Desc"}, [x86_64 |-> 255, aarch64 |-> 28, riscv64 |-> 28]),
  Entry("io_cancel", <<IntT(8, FALSE), PtrT, PtrT>>,
        <<Arg("ctx_id", 1, IntT(8, FALSE)), Arg("iocb", 2, ItemT(FixedT(64)))>>,
        IntT(4, TRUE), <<Arg("result", 3, ItemT(FixedT(32)))>>,
        {}, [x86_64 |-> 210, aarch64 |-> 3, riscv64 |-> 3]),
  Entry("io_destroy", <<IntT(8, FALSE)>>,
        <<Arg("ctx_id", 1, IntT(8, FALSE))>>,
        IntT(4, TRUE), <<>>,
        {}, [x86_64 |-> 207, aarch64 |-> 1, riscv64 |-> 1]),
  Entry("io_getevents", <<IntT(8, FALSE), IntT(8, TRUE), IntT(8, TRUE), PtrT, PtrT>>,
        <<Arg("ctx_id", 1, IntT(8, FALSE)), Arg("min_nr", 2, IntT(8, TRUE)), Arg("nr", 3, IntT(8, TRUE)), Arg("timeout", 5, OptT(ItemT(FixedT(16))))>>,
        IntT(4, TRUE), <<Arg("events", 4, NoImplT)>>,
        {}, [x86_64 |-> 208, aarch64 |-> 4, riscv64 |-> 4]),
  Entry("io_pgetevents", <<IntT(8, FALSE), IntT(8, TRUE), IntT(8, TRUE), PtrT, PtrT, PtrT>>,
        <<Arg("ctx_id", 1, IntT(8, FALSE)), Arg("min_nr", 2, IntT(8, TRUE)), Arg("nr", 3, IntT(8, TRUE)), Arg("timeout", 5, OptT(ItemT(FixedT(16)))), Arg("sig", 6, ItemT(FixedT(16)))>>,
        IntT(4, TRUE), <<Arg("events", 4, NoImplT)>>,
        {}, [x86_64 |-> 333, aarch64 |-> 292, riscv64 |-> 292]),
  Entry("io_setup", <<IntT(8, FALSE), PtrT>>,
        <<Arg("nr_events", 1, IntT(8, FALSE))>>,
        IntT(4, TRUE), <<Arg("ctx_idp", 2, IntT(8, FALSE))>>,
        {"Memory"}, [x86_64 |-> 206, aarch64 |-> 0, riscv64 |-> 0]),
  Entry("io_submit", <<IntT(8, FALSE), IntT(8, TRUE), PtrT>>,
        <<Arg("ctx_id", 1, IntT(8, FALSE)), Arg("nr", 2, IntT(8, TRUE)), Arg("iocbpp", 3, NoImplT)>>,
        IntT(4, TRUE), <<>>,
        {}, [x86_64 |-> 209, aarch64 |-> 2, riscv64 |-> 2]),
  Entry("io_uring_enter", <<IntT(4, FALSE), IntT(4, FALSE), IntT(4, FALSE), IntT(4, FALSE), IntT(8, FALSE), IntT(8, FALSE)>>,
        <<Arg("fd", 1, IntT(4, FALSE)), Arg("to_submit", 2, IntT(4, FALSE)), Arg("min_complete", 3, IntT(4, FALSE)), Arg("flags", 4, IntT(4, FALSE)), Arg("arg", 5, VecT(FixedT(1))), Arg("argsz", 6, IntT(8, FALSE))>>,
        IntT(4, TRUE), <<>>,
        {"Desc", "File"}, [x86_64 |-> 426, aarch64 |-> 426, riscv64 |-> 426]),
  Entry("io_uring_register", <<IntT(4, FALSE), IntT(4, FALSE), IntT(8, FALSE), IntT(4, FALSE)>>,
        <<Arg("fd", 1, IntT(4, FALSE)), Arg("op", 2, IntT(4, FALSE)), Arg("arg", 3, IntT(8, FALSE)), Arg("nr_args", 4, IntT(4, FALSE))>>,
        IntT(4, TRUE), <<>>,
        {"Desc", "Memory"}, [x86_64 |-> 427, aarch64 |-> 427, riscv64 |-> 427]),
  Entry("io_uring_setup", <<IntT(4, FALSE), PtrT>>,
        <<Arg("entries", 1, IntT(4, FALSE)), Arg("p", 2, ItemT(FixedT(120)))>>,
        IntT(4, TRUE), <<Arg("p", 2, ItemT(FixedT(120)))>>,
        {"Desc"}, [x86_64 |-> 425, aarch64 |-> 425, riscv64 |-> 425]),
  Entry("ioctl", <<IntT(4, TRUE), IntT(8, FALSE), IntT(8, FALSE)>>,
        <<Arg("fd", 1, IntT(4, TRUE)), Arg("request", 2, IntT(8, FALSE)), Arg("argp", 3, IntT(8, FALSE))>>,
        IntT(4, TRUE), <<>>,
        {"Desc"}, [x86_64 |-> 16, aarch64 |-> 29, riscv64 |-> 29]),
  Entry("ioperm", <<IntT(8, FALSE), IntT(8, FALSE), IntT(4, TRUE)>>,
        <<Arg("from", 1, IntT(8, FALSE)), Arg("num", 2, IntT(8, FALSE)), Arg("turn_on", 3, IntT(4, TRUE))>>,
        IntT(4, TRUE), <<>>,
        {}, [x86_64 |-> 173]),
  Entry("iopl", <<IntT(4, TRUE)>>,
        <<Arg("level", 1, IntT(4, TRUE))>>,
        IntT(4, TRUE), <<>>,
        {}, [x86_64 |-> 172]),
  Entry("ioprio_get", <<IntT(4, TRUE), IntT(4, TRUE)>>,
        <<Arg("which", 1, IntT(4, TRUE)), Arg("who", 2, IntT(4, TRUE))>>,
        IntT(4, TRUE), <<>>,
        {}, [x86_64 |-> 252, aarch64 |-> 31, riscv64 |-> 31]),
  Entry("ioprio_set", <<IntT(4, TRUE), IntT(4, TRUE), IntT(4, TRUE)>>,
        <<Arg("which", 1, IntT(4, TRUE)), Arg("who", 2, IntT(4, TRUE)), Arg("ioprio", 3, IntT(4, TRUE))>>,
        IntT(4, TRUE), <<>>,
        {}, [x86_64 |-> 251, aarch64 |-> 30, riscv64 |-> 30]),
  Entry("kcmp", <<IntT(4, TRUE), IntT(4, TRUE), IntT(4, TRUE), IntT(8, FALSE), IntT(8, FALSE)>>,
        <<Arg("pid1", 1, IntT(4, TRUE)), Arg("pid2", 2, IntT(4, TRUE)), Arg("r#type", 3, IntT(4, TRUE)), Arg("idx1", 4, IntT(8, FALSE)), Arg("idx2", 5, IntT(8, FALSE))>>,
        IntT(4, TRUE), <<>>,
        {}, [x86_64 |-> 312, aarch64 |-> 272, riscv64 |-> 272]),
  Entry("kexec_file_load", <<IntT(4, TRUE), IntT(4, TRUE), IntT(8, FALSE), PtrT, IntT(8, FALSE)>>,
        <<Arg("kernel_fd", 1, IntT(4, TRUE)), Arg("initrd_fd", 2, IntT(4, TRUE)), Arg("cmdline_len", 3, IntT(8, FALSE)), Arg("cmdline", 4, ItemT(StringT)), Arg("flags", 5, IntT(8, FALSE))>>,
        IntT(8, TRUE), <<>>,
        {"Desc"}, [x86_64 |-> 320, aarch64 |-> 294, riscv64 |-> 294]),
  Entry("kexec_load", <<IntT(8, FALSE), IntT(8, FALSE), PtrT, IntT(8, FALSE)>>,
        <<Arg("entry", 1, IntT(8, FALSE)), Arg("nr_segments", 2, IntT(8, FALSE)), Arg("segments", 3, NoImplT), Arg("flags", 4, IntT(8, FALSE))>>,
        IntT(8, TRUE), <<>>,
        {}, [x86_64 |-> 246, aarch64 |-> 104, riscv64 |-> 104]),
  Entry("keyctl", <<IntT(4, TRUE), IntT(8, FALSE), IntT(8, FALSE), IntT(8, FALSE), IntT(8, FALSE)>>,
        <<Arg("option", 1, IntT(4, TRUE)), Arg("arg2", 2, IntT(8, FALSE)), Arg("arg3", 3, IntT(8, FALSE)), Arg("arg4", 4, IntT(8, FALSE)), Arg("arg5", 5, IntT(8, FALSE))>>,
        IntT(8, TRUE), <<>>,
        {}, [x86_64 |-> 250, aarch64 |-> 219, riscv64 |-> 219]),
  Entry("kill", <<IntT(4, TRUE), IntT(4, TRUE)>>,
        <<Arg("pid", 1, IntT(4, TRUE)), Arg("sig", 2, IntT(4, TRUE))>>,
        IntT(4, TRUE), <<>>,
        {"Signal", "Process"}, [x86_64 |-> 62, aarch64 |-> 129, riscv64 |-> 129]),
  Entry("landlock_add_rule", <<IntT(4, TRUE), IntT(8, TRUE), PtrT, IntT(4, FALSE)>>,
        <<Arg("ruleset_fd", 1, IntT(4, TRUE)), Arg("rule_type", 2, IntT(8, TRUE)), Arg("rule_attr", 3, VecT(FixedT(1))), Arg("flags", 4, IntT(4, FALSE))>>,
        IntT(4, TRUE), <<>>,
        {"Desc"}, [x86_64 |-> 445, aarch64 |-> 445, riscv64 |-> 445]),
  Entry("landlock_create_ruleset", <<PtrT, IntT(8, FALSE), IntT(4, FALSE)>>,
        <<Arg("ruleset_attr", 1, ItemT(FixedT(8))), Arg("size", 2, IntT(8, FALSE)), Arg("flags", 3, IntT(4, FALSE))>>,
        IntT(4, TRUE), <<>>,
        {"Desc"}, [x86_64 |-> 444, aarch64 |-> 444, riscv64 |-> 444]),
  Entry("landlock_restrict_self", <<IntT(4, TRUE), IntT(4, FALSE)>>,
        <<Arg("ruleset_fd", 1, IntT(4, TRUE)), Arg("flags", 2, IntT(4, FALSE))>>,
        IntT(4, TRUE), <<>>,
        {"Desc"}, [x86_64 |-> 446, aarch64 |-> 446, riscv64 |-> 446]),
  Entry("lchown", <<PtrT, IntT(4, FALSE), IntT(4, FALSE)>>,
        <<Arg("pathname", 1, ItemT(StringT)), Arg("owner", 2, IntT(4, FALSE)), Arg("group", 3, IntT(4, FALSE))>>,
        IntT(4, TRUE), <<>>,
        {"File"}, [x86_64 |-> 94]),
  Entry("lgetxattr", <<PtrT, PtrT, PtrT, IntT(8, FALSE)>>,
        <<Arg("pathname", 1, ItemT(StringT)), Arg("name", 2, ItemT(StringT)), Arg("size", 4, IntT(8, FALSE))>>,
        IntT(8, TRUE), <<Arg("value", 3, VecT(FixedT(1)))>>,
        {"File"}, [x86_64 |-> 192, aarch64 |-> 9, riscv64 |-> 9]),
  Entry("link", <<PtrT, PtrT>>,
        <<Arg("oldpath", 1, ItemT(StringT)), Arg("newpath", 2, ItemT(StringT))>>,
        IntT(4, TRUE), <<>>,
        {"File"}, [x86_64 |-> 86]),
  Entry("linkat", <<IntT(4, TRUE), PtrT, IntT(4, TRUE), PtrT, IntT(4, TRUE)>>,
        <<Arg("olddirfd", 1, IntT(4, TRUE)), Arg("oldpath", 2, ItemT(StringT)), Arg("newdirfd", 3, IntT(4, TRUE)), Arg("newpath", 4, ItemT(StringT)), Arg("flags", 5, IntT(4, TRUE))>>,
        IntT(4, TRUE), <<>>,
        {"Desc", "File"}, [x86_64 |-> 265, aarch64 |-> 37, riscv64 |-> 37]),
  Entry("listen", <<IntT(4, TRUE), IntT(4, TRUE)>>,
        <<Arg("sockfd", 1, IntT(4, TRUE)), Arg("backlog", 2, IntT(4, TRUE))>>,
        IntT(4, TRUE), <<>>,
        {"Network"}, [x86_64 |-> 50, aarch64 |-> 201, riscv64 |-> 201]),
  Entry("listmount", <<PtrT, PtrT, IntT(8, FALSE), IntT(4, FALSE)>>,
        <<Arg("req", 1, ItemT(FixedT(16))), Arg("bufsize", 3, IntT(8, FALSE)), Arg("flags", 4, IntT(4, FALSE))>>,
        IntT(4, TRUE), <<Arg("buf", 2, NoImplT)>>,
        {}, [x86_64 |-> 458, aarch64 |-> 458, riscv64 |-> 458]),
  Entry("listxattr", <<PtrT, PtrT, IntT(8, FALSE)>>,
        <<Arg("path", 1, ItemT(StringT)), Arg("size", 3, IntT(8, FALSE))>>,
        IntT(8, TRUE), <<Arg("list", 2, OptT(VecT(StringT)))>>,
        {"File"}, [x86_64 |-> 194, aarch64 |-> 11, riscv64 |-> 11]),
  Entry("llistxattr", <<PtrT, PtrT, IntT(8, FALSE)>>,
        <<Arg("path", 1, ItemT(StringT)), Arg("size", 3, IntT(8, FALSE))>>,
        IntT(8, TRUE), <<Arg("list", 2, OptT(VecT(StringT)))>>,
        {"File"}, [x86_64 |-> 195, aarch64 |-> 12, riscv64 |-> 12]),
  Entry("lookup_dcookie", <<IntT(8, FALSE), PtrT, IntT(8, FALSE)>>,
        <<Arg("cookie", 1, IntT(8, FALSE)), Arg("len", 3, IntT(8, FALSE))>>,
        IntT(8, TRUE), <<Arg("buffer", 2, ItemT(StringT))>>,
        {}, [x86_64 |-> 212, aarch64 |-> 18, riscv64 |-> 18]),
  Entry("lremovexattr", <<PtrT, PtrT>>,
        <<Arg("path", 1, ItemT(StringT)), Arg("name", 2, ItemT(StringT))>>,
        IntT(4, TRUE), <<>>,
        {"File"}, [x86_64 |-> 198, aarch64 |-> 15, riscv64 |-> 15]),
  Entry("lseek", <<IntT(4, TRUE), IntT(8, TRUE), IntT(4, TRUE)>>,
        <<Arg("fd", 1, IntT(4, TRUE)), Arg("offset", 2, IntT(8, TRUE)), Arg("whence", 3, IntT(4, TRUE))>>,
        IntT(8, TRUE), <<>>,
        {"Desc"}, [x86_64 |-> 8, aarch64 |-> 62, riscv64 |-> 62]),
  Entry("lsetxattr", <<PtrT, PtrT, PtrT, IntT(8, FALSE), IntT(4, TRUE)>>,
        <<Arg("path", 1, ItemT(StringT)), Arg("name", 2, ItemT(StringT)), Arg("value", 3, ItemT(StringT)), Arg("size", 4, IntT(8, FALSE)), Arg("flags", 5, IntT(4, TRUE))>>,
        IntT(4, TRUE), <<>>,
        {"File"}, [x86_64 |-> 189, aarch64 |-> 6, riscv64 |-> 6]),
  Entry("lsm_get_self_attr", <<IntT(4, FALSE), PtrT, PtrT, IntT(4, FALSE)>>,
        <<Arg("attr", 1, IntT(4, FALSE)), Arg("size", 3, ItemT(FixedT(4))), Arg("flags", 4, IntT(4, FALSE))>>,
        IntT(4, TRUE), <<Arg("ctx", 2, VecT(FixedT(1)))>>,
        {}, [x86_64 |-> 459, aarch64 |-> 459, riscv64 |-> 459]),
  Entry("lsm_list_modules", <<PtrT, PtrT, IntT(4, FALSE)>>,
        <<Arg("size", 2, ItemT(FixedT(4))), Arg("flags", 3, IntT(4, FALSE))>>,
        IntT(4, TRUE), <<Arg("ids", 1, NoImplT)>>,
        {}, [x86_64 |-> 461, aarch64 |-> 461, riscv64 |-> 461]),
  Entry("lsm_set_self_attr", <<IntT(4, FALSE), PtrT, IntT(4, FALSE), IntT(4, FALSE)>>,
        <<Arg("attr", 1, IntT(4, FALSE)), Arg("ctx", 2, VecT(FixedT(1))), Arg("size", 3, IntT(4, FALSE)), Arg("flags", 4, IntT(4, FALSE))>>,
        IntT(4, TRUE), <<>>,
        {}, [x86_64 |-> 460, aarch64 |-> 460, riscv64 |-> 460]),
  Entry("lstat", <<PtrT, PtrT>>,
        <<Arg("pathname", 1, ItemT(StringT))>>,
        IntT(4, TRUE), <<Arg("statbuf", 2, ItemT(FixedT(144)))>>,
        {"File", "LStat", "StatLike"}, [x86_64 |-> 6]),
  Entry("madvise", <<PtrT, IntT(8, FALSE), IntT(4, TRUE)>>,
        <<Arg("addr", 1, IntT(8, FALSE)), Arg("length", 2, IntT(8, FALSE)), Arg("advice", 3, IntT(4, TRUE))>>,
        IntT(4, TRUE), <<>>,
        {"Memory"}, [x86_64 |-> 28, aarch64 |-> 233, riscv64 |-> 233]),
  Entry("map_shadow_stack", <<PtrT, IntT(8, FALSE), IntT(4, TRUE)>>,
        <<Arg("addr", 1, IntT(8, FALSE)), Arg("len", 2, IntT(8, FALSE)), Arg("flags", 3, IntT(4, TRUE))>>,
        IntT(4, TRUE), <<>>,
        {"Memory"}, [x86_64 |-> 453, aarch64 |-> 453, riscv64 |-> 453]),
  Entry("mbind", <<PtrT, IntT(8, FALSE), IntT(4, TRUE), PtrT, IntT(8, FALSE), IntT(4, FALSE)>>,
        <<Arg("len", 2, IntT(8, FALSE)), Arg("mode", 3, IntT(4, TRUE)), Arg("nodemask", 4, NoImplT), Arg("maxnode", 5, IntT(8, FALSE)), Arg("flags", 6, IntT(4, FALSE))>>,
        IntT(8, TRUE), <<>>,
        {"Memory"}, [x86_64 |-> 237, aarch64 |-> 235, riscv64 |-> 235]),
  Entry("membarrier", <<IntT(4, TRUE), IntT(4, FALSE), IntT(4, TRUE)>>,
        <<Arg("cmd", 1, IntT(4, TRUE)), Arg("flags", 2, IntT(4, TRUE)), Arg("cpu_id", 3, IntT(4, TRUE))>>,
        IntT(4, TRUE), <<>>,
        {"Memory"}, [x86_64 |-> 324, aarch64 |-> 283, riscv64 |-> 283]),
  Entry("memfd_create", <<PtrT, IntT(4, FALSE)>>,
        <<Arg("name", 1, ItemT(StringT)), Arg("flags", 2, IntT(4, FALSE))>>,
        IntT(4, TRUE), <<>>,
        {"Desc"}, [x86_64 |-> 319, aarch64 |-> 279, riscv64 |-> 279]),
  Entry("memfd_secret", <<IntT(4, FALSE)>>,
        <<Arg("flags", 1, IntT(4, FALSE))>>,
        IntT(4, TRUE), <<>>,
        {"Desc"}, [x86_64 |-> 447, aarch64 |-> 447, riscv64 |-> 447]),
  Entry("migrate_pages", <<IntT(4, TRUE), IntT(8, FALSE), PtrT, PtrT>>,
        <<Arg("pid", 1, IntT(4, TRUE)), Arg("maxnode", 2, IntT(8, FALSE)), Arg("old_nodes", 3, NoImplT), Arg("new_nodes", 4, NoImplT)>>,
        IntT(8, TRUE), <<>>,
        {"Memory"}, [x86_64 |-> 256, aarch64 |-> 238, riscv64 |-> 238]),
  Entry("mincore", <<PtrT, IntT(8, FALSE), PtrT>>,
        <<Arg("addr", 1, IntT(8, FALSE)), Arg("length", 2, IntT(8, FALSE))>>,
        IntT(4, TRUE), <<Arg("vec", 3, VecT(FixedT(1)))>>,
        {"Memory"}, [x86_64 |-> 27, aarch64 |-> 232, riscv64 |-> 232]),
  Entry("mkdir", <<PtrT, IntT(4, FALSE)>>,
        <<Arg("pathname", 1, ItemT(StringT)), Arg("mode", 2, IntT(4, FALSE))>>,
        IntT(4, TRUE), <<>>,
        {"File"}, [x86_64 |-> 83]),
  Entry("mkdirat", <<IntT(4, TRUE), PtrT, IntT(4, FALSE)>>,
        <<Arg("dirfd", 1, IntT(4, TRUE)), Arg("pathname", 2, ItemT(StringT)), Arg("mode", 3, IntT(4, FALSE))>>,
        IntT(4, TRUE), <<>>,
        {"Desc", "File"}, [x86_64 |-> 258, aarch64 |-> 34, riscv64 |-> 34]),
  Entry("mknod", <<PtrT, IntT(4, FALSE), IntT(8, FALSE)>>,
        <<Arg("pathname", 1, ItemT(StringT)), Arg("mode", 2, IntT(4, FALSE)), Arg("dev", 3, IntT(8, FALSE))>>,
        IntT(4, TRUE), <<>>,
        {"File"}, [x86_64 |-> 133]),
  Entry("mknodat", <<IntT(4, TRUE), PtrT, IntT(4, FALSE), IntT(8, FALSE)>>,
        <<Arg("dirfd", 1, IntT(4, TRUE)), Arg("pathname", 2, ItemT(StringT)), Arg("mode", 3, IntT(4, FALSE)), Arg("dev", 4, IntT(8, FALSE))>>,
        IntT(4, TRUE), <<>>,
        {"Desc", "File"}, [x86_64 |-> 259, aarch64 |-> 33, riscv64 |-> 33]),
  Entry("mlock", <<PtrT, IntT(8, FALSE)>>,
        <<Arg("addr", 1, IntT(8, FALSE)), Arg("len", 2, IntT(8, FALSE))>>,
        IntT(4, TRUE), <<>>,
        {"Memory"}, [x86_64 |-> 149, aarch64 |-> 228, riscv64 |-> 228]),
  Entry("mlock2", <<PtrT, IntT(8, FALSE), IntT(4, TRUE)>>,
        <<Arg("start", 1, IntT(8, FALSE)), Arg("len", 2, IntT(8, FALSE)), Arg("flags", 3, IntT(4, TRUE))>>,
        IntT(4, TRUE), <<>>,
        {"Memory"}, [x86_64 |-> 325, aarch64 |-> 284, riscv64 |-> 284]),
  Entry("mlockall", <<IntT(4, TRUE)>>,
        <<Arg("flags", 1, IntT(4, TRUE))>>,
        IntT(4, TRUE), <<>>,
        {"Memory"}, [x86_64 |-> 151, aarch64 |-> 230, riscv64 |-> 230]),
  Entry("mmap", <<PtrT, IntT(8, FALSE), IntT(4, TRUE), IntT(4, TRUE), IntT(4, TRUE), IntT(8, TRUE)>>,
        <<Arg("addr", 1, IntT(8, FALSE)), Arg("length", 2, IntT(8, FALSE)), Arg("prot", 3, IntT(4, TRUE)), Arg("flags", 4, IntT(4, TRUE)), Arg("fd", 5, IntT(4, TRUE)), Arg("offset", 6, IntT(8, TRUE))>>,
        IntT(8, FALSE), <<>>,
        {"Memory"}, [x86_64 |-> 9, aarch64 |-> 222, riscv64 |-> 222]),
  Entry("modify_ldt", <<IntT(4, TRUE), PtrT, IntT(8, FALSE)>>,
        <<Arg("func", 1, IntT(4, TRUE)), Arg("ptr", 2, IntT(8, FALSE)), Arg("bytecount", 3, IntT(8, FALSE))>>,
        IntT(4, TRUE), <<>>,
        {}, [x86_64 |-> 154]),
  Entry("mount", <<PtrT, PtrT, PtrT, IntT(8, FALSE), PtrT>>,
        <<Arg("source", 1, ItemT(StringT)), Arg("target", 2, ItemT(StringT)), Arg("filesystemtype", 3, ItemT(StringT)), Arg("mountflags", 4, IntT(8, FALSE)), Arg("data", 5, OptT(ItemT(StringT)))>>,
        IntT(4, TRUE), <<>>,
        {"File"}, [x86_64 |-> 165, aarch64 |-> 40, riscv64 |-> 40]),
  Entry("mount_setattr", <<IntT(4, TRUE), PtrT, IntT(4, FALSE), PtrT, IntT(8, FALSE)>>,
        <<Arg("dirfd", 1, IntT(4, TRUE)), Arg("pathname", 2, ItemT(StringT)), Arg("flags", 3, IntT(4, FALSE)), Arg("attr", 4, NoImplT), Arg("size", 5, IntT(8, FALSE))>>,
        IntT(4, TRUE), <<>>,
        {"Desc", "File"}, [x86_64 |-> 442, aarch64 |-> 442, riscv64 |-> 442]),
  Entry("move_mount", <<IntT(4, TRUE), PtrT, IntT(4, TRUE), PtrT, IntT(4, FALSE)>>,
        <<Arg("from_dfd", 1, IntT(4, TRUE)), Arg("from_path", 2, ItemT(StringT)), Arg("to_dfd", 3, IntT(4, TRUE)), Arg("to_path", 4, ItemT(StringT)), Arg("ms_flags", 5, IntT(4, FALSE))>>,
        IntT(4, TRUE), <<>>,
        {"Desc", "File"}, [x86_64 |-> 429, aarch64 |-> 429, riscv64 |-> 429]),
  Entry("move_pages", <<IntT(4, TRUE), IntT(8, FALSE), PtrT, PtrT, PtrT, IntT(4, TRUE)>>,
        <<Arg("pid", 1, IntT(4, TRUE)), Arg("count", 2, IntT(8, FALSE)), Arg("pages", 3, NoImplT), Arg("nodes", 4, NoImplT), Arg("flags", 6, IntT(4, TRUE))>>,
        IntT(8, TRUE), <<Arg("status", 5, NoImplT)>>,
        {"Memory"}, [x86_64 |-> 279, aarch64 |-> 239, riscv64 |-> 239]),
  Entry("mprotect", <<PtrT, IntT(8, FALSE), IntT(4, TRUE)>>,
        <<Arg("addr", 1, IntT(8, FALSE)), Arg("len", 2, IntT(8, FALSE)), Arg("prot", 3, IntT(4, TRUE))>>,
        IntT(4, TRUE), <<>>,
        {"Memory"}, [x86_64 |-> 10, aarch64 |-> 226, riscv64 |-> 226]),
  Entry("mq_getsetattr", <<IntT(4, TRUE), PtrT, PtrT>>,
        <<Arg("mqdes", 1, IntT(4, TRUE)), Arg("newattr", 2, ItemT(FixedT(64))), Arg("oldattr", 3, ItemT(FixedT(64)))>>,
        IntT(4, TRUE), <<Arg("oldattr", 3, ItemT(FixedT(64)))>>,
        {"Desc"}, [x86_64 |-> 245, aarch64 |-> 185, riscv64 |-> 185]),
  Entry("mq_notify", <<IntT(4, TRUE), PtrT>>,
        <<Arg("mqdes", 1, IntT(4, TRUE)), Arg("sevp", 2, ItemT(FixedT(64)))>>,
        IntT(4, TRUE), <<>>,
        {"Desc"}, [x86_64 |-> 244, aarch64 |-> 184, riscv64 |-> 184]),
  Entry("mq_open", <<PtrT, IntT(4, TRUE), IntT(4, FALSE), PtrT>>,
        <<Arg("name", 1, ItemT(StringT)), Arg("oflag", 2, IntT(4, TRUE)), Arg("mode", 3, IntT(4, FALSE)), Arg("attr", 4, OptT(ItemT(FixedT(64))))>>,
        IntT(4, TRUE), <<>>,
        {"Desc"}, [x86_64 |-> 240, aarch64 |-> 180, riscv64 |-> 180]),
  Entry("mq_timedreceive", <<IntT(4, TRUE), PtrT, IntT(8, FALSE), PtrT, PtrT>>,
        <<Arg("mqdes", 1, IntT(4, TRUE)), Arg("msg_len", 3, IntT(8, FALSE)), Arg("abs_timeout", 5, ItemT(FixedT(16)))>>,
        IntT(8, TRUE), <<Arg("msg_ptr", 2, VecT(StringT)), Arg("msg_prio", 4, NoImplT)>>,
        {"Desc"}, [x86_64 |-> 243, aarch64 |-> 183, riscv64 |-> 183]),
  Entry("mq_timedsend", <<IntT(4, TRUE), PtrT, IntT(8, FALSE), IntT(4, FALSE), PtrT>>,
        <<Arg("mqdes", 1, IntT(4, TRUE)), Arg("msg_ptr", 2, ItemT(StringT)), Arg("msg_len", 3, IntT(8, FALSE)), Arg("msg_prio", 4, IntT(4, FALSE)), Arg("abs_timeout", 5, ItemT(FixedT(16)))>>,
        IntT(4, TRUE), <<>>,
        {"Desc"}, [x86_64 |-> 242, aarch64 |-> 182, riscv64 |-> 182]),
  Entry("mq_unlink", <<PtrT>>,
        <<Arg("name", 1, ItemT(StringT))>>,
        IntT(4, TRUE), <<>>,
        {}, [x86_64 |-> 241, aarch64 |-> 181, riscv64 |-> 181]),
  Entry("mremap", <<PtrT, IntT(8, FALSE), IntT(8, FALSE), IntT(4, TRUE), PtrT>>,
        <<Arg("old_address", 1, IntT(8, FALSE)), Arg("old_size", 2, IntT(8, FALSE)), Arg("new_size", 3, IntT(8, FALSE)), Arg("flags", 4, IntT(4, TRUE)), Arg("new_address", 5, IntT(8, FALSE))>>,
        IntT(8, FALSE), <<>>,
        {"Memory"}, [x86_64 |-> 25, aarch64 |-> 216, riscv64 |-> 216]),
  Entry("mseal", <<IntT(8, FALSE), IntT(8, FALSE), IntT(8, FALSE), IntT(8, FALSE)>>,
        <<Arg("start", 1, IntT(8, FALSE)), Arg("len", 2, IntT(8, FALSE)), Arg("types", 3, IntT(8, FALSE)), Arg("flags", 4, IntT(8, FALSE))>>,
        IntT(4, TRUE), <<>>,
        {"Memory"}, [x86_64 |-> 462, aarch64 |-> 462, riscv64 |-> 462]),
  Entry("msgctl", <<IntT(4, TRUE), IntT(4, TRUE), PtrT>>,
        <<Arg("msqid", 1, IntT(4, TRUE)), Arg("cmd", 2, IntT(4, TRUE))>>,
        IntT(4, TRUE), <<Arg("buf", 3, ItemT(FixedT(120)))>>,
        {}, [x86_64 |-> 71, aarch64 |-> 187, riscv64 |-> 187]),
  Entry("msgget", <<IntT(4, TRUE), IntT(4, TRUE)>>,
        <<Arg("key", 1, IntT(4, TRUE)), Arg("msgflg", 2, IntT(4, TRUE))>>,
        IntT(4, TRUE), <<>>,
        {}, [x86_64 |-> 68, aarch64 |-> 186, riscv64 |-> 186]),
  Entry("msgrcv", <<IntT(4, TRUE), PtrT, IntT(8, FALSE), IntT(8, TRUE), IntT(4, TRUE)>>,
        <<Arg("msqid", 1, IntT(4, TRUE)), Arg("msgsz", 3, IntT(8, FALSE)), Arg("msgtyp", 4, IntT(8, TRUE)), Arg("msgflg", 5, IntT(4, TRUE))>>,
        IntT(8, TRUE), <<Arg("msgp", 2, VecT(FixedT(1)))>>,
        {}, [x86_64 |-> 70, aarch64 |-> 188, riscv64 |-> 188]),
  Entry("msgsnd", <<IntT(4, TRUE), PtrT, IntT(8, FALSE), IntT(4, TRUE)>>,
        <<Arg("msqid", 1, IntT(4, TRUE)), Arg("msgp", 2, VecT(FixedT(1))), Arg("msgsz", 3, IntT(8, FALSE)), Arg("msgflg", 4, IntT(4, TRUE))>>,
        IntT(4, TRUE), <<>>,
        {}, [x86_64 |-> 69, aarch64 |-> 189, riscv64 |-> 189]),
  Entry("msync", <<PtrT, IntT(8, FALSE), IntT(4, TRUE)>>,
        <<Arg("addr", 1, IntT(8, FALSE)), Arg("length", 2, IntT(8, FALSE)), Arg("flags", 3, IntT(4, TRUE))>>,
        IntT(4, TRUE), <<>>,
        {"Memory"}, [x86_64 |-> 26, aarch64 |-> 227, riscv64 |-> 227]),
  Entry("munlock", <<PtrT, IntT(8, FALSE)>>,
        <<Arg("addr", 1, IntT(8, FALSE)), Arg("len", 2, IntT(8, FALSE))>>,
        IntT(4, TRUE), <<>>,
        {"Memory"}, [x86_64 |-> 150, aarch64 |-> 229, riscv64 |-> 229]),
  Entry("munlockall", <<>>,
        <<>>,
        IntT(4, TRUE), <<>>,
        {"Memory"}, [x86_64 |-> 152, aarch64 |-> 231, riscv64 |-> 231]),
  Entry("munmap", <<PtrT, IntT(8, FALSE)>>,
        <<Arg("addr", 1, IntT(8, FALSE)), Arg("length", 2, IntT(8, FALSE))>>,
        IntT(4, TRUE), <<>>,
        {"Memory"}, [x86_64 |-> 11, aarch64 |-> 215, riscv64 |-> 215]),
  Entry("name_to_handle_at", <<IntT(4, TRUE), PtrT, PtrT, PtrT, IntT(4, TRUE)>>,
        <<Arg("dirfd", 1, IntT(4, TRUE)), Arg("pathname", 2, ItemT(StringT)), Arg("flags", 5, IntT(4, TRUE))>>,
        IntT(4, TRUE), <<Arg("handle", 3, VecT(FixedT(1))), Arg("mount_id", 4, IntT(4, TRUE))>>,
        {"Desc", "File"}, [x86_64 |-> 303, aarch64 |-> 264, riscv64 |-> 264]),
  Entry("nanosleep", <<PtrT, PtrT>>,
        <<Arg("req", 1, ItemT(FixedT(16)))>>,
        IntT(4, TRUE), <<Arg("rem", 2, OptT(ItemT(FixedT(16))))>>,
        {"Clock"}, [x86_64 |-> 35, aarch64 |-> 230, riscv64 |-> 230]),
  Entry("newfstatat", <<IntT(4, TRUE), PtrT, PtrT, IntT(4, TRUE)>>,
        <<Arg("dirfd", 1, IntT(4, TRUE)), Arg("pathname", 2, ItemT(StringT)), Arg("flags", 4, IntT(4, TRUE))>>,
        IntT(4, TRUE), <<Arg("statbuf", 3, ItemT(FixedT(144)))>>,
        {"Desc", "File", "FStat", "StatLike"}, [x86_64 |-> 262, aarch64 |-> 79, riscv64 |-> 79]),
  Entry("open", <<PtrT, IntT(4, TRUE), IntT(4, FALSE)>>,
        <<Arg("pathname", 1, ItemT(StringT)), Arg("flags", 2, IntT(4, TRUE)), Arg("mode", 3, IntT(4, FALSE))>>,
        IntT(4, TRUE), <<>>,
        {"Desc", "File"}, [x86_64 |-> 2, aarch64 |-> 56, riscv64 |-> 56]),
  Entry("open_by_handle_at", <<IntT(4, TRUE), PtrT, IntT(4, TRUE)>>,
        <<Arg("mount_fd", 1, IntT(4, TRUE)), Arg("handle", 2, VecT(FixedT(1))), Arg("flags", 3, IntT(4, TRUE))>>,
        IntT(4, TRUE), <<>>,
        {"Desc"}, [x86_64 |-> 304, aarch64 |-> 265, riscv64 |-> 265]),
  Entry("open_tree", <<IntT(4, TRUE), PtrT, IntT(4, FALSE)>>,
        <<Arg("dirfd", 1, IntT(4, TRUE)), Arg("path", 2, ItemT(StringT)), Arg("flags", 3, IntT(4, FALSE))>>,
        IntT(4, TRUE), <<>>,
        {"Desc", "File"}, [x86_64 |-> 428, aarch64 |-> 428, riscv64 |-> 428]),
  Entry("openat", <<IntT(4, TRUE), PtrT, IntT(4, TRUE), IntT(4, FALSE)>>,
        <<Arg("dirfd", 1, IntT(4, TRUE)), Arg("pathname", 2, ItemT(StringT)), Arg("flags", 3, IntT(4, TRUE)), Arg("mode", 4, IntT(4, FALSE))>>,
        IntT(4, TRUE), <<>>,
        {"Desc", "File"}, [x86_64 |-> 257, aarch64 |-> 56, riscv64 |-> 56]),
  Entry("openat2", <<IntT(4, TRUE), PtrT, PtrT, IntT(8, FALSE)>>,
        <<Arg("dirfd", 1, IntT(4, TRUE)), Arg("pathname", 2, ItemT(StringT)), Arg("how", 3, ItemT(FixedT(24))), Arg("size", 4, IntT(8, FALSE))>>,
        IntT(4, TRUE), <<>>,
        {"Desc", "File"}, [x86_64 |-> 437, aarch64 |-> 437, riscv64 |-> 437]),
  Entry("pause", <<>>,
        <<>>,
        IntT(4, TRUE), <<>>,
        {"Signal"}, [x86_64 |-> 34]),
  Entry("perf_event_open", <<PtrT, IntT(4, TRUE), IntT(4, TRUE), IntT(4, TRUE), IntT(8, FALSE)>>,
        <<Arg("attr", 1, IntT(8, FALSE)), Arg("pid", 2, IntT(4, TRUE)), Arg("cpu", 3, IntT(4, TRUE)), Arg("group_fd", 4, IntT(4, TRUE)), Arg("flags", 5, IntT(8, FALSE))>>,
        IntT(4, TRUE), <<>>,
        {"Desc"}, [x86_64 |-> 298, aarch64 |-> 241, riscv64 |-> 241]),
  Entry("personality", <<IntT(8, FALSE)>>,
        <<Arg("persona", 1, IntT(8, FALSE))>>,
        IntT(4, TRUE), <<>>,
        {}, [x86_64 |-> 135, aarch64 |-> 92, riscv64 |-> 92]),
  Entry("pidfd_getfd", <<IntT(4, TRUE), IntT(4, TRUE), IntT(4, FALSE)>>,
        <<Arg("pidfd", 1, IntT(4, TRUE)), Arg("targetfd", 2, IntT(4, TRUE)), Arg("flags", 3, IntT(4, FALSE))>>,
        IntT(4, TRUE), <<>>,
        {"Desc"}, [x86_64 |-> 438, aarch64 |-> 438, riscv64 |-> 438]),
  Entry("pidfd_open", <<IntT(4, TRUE), IntT(4, FALSE)>>,
        <<Arg("pid", 1, IntT(4, TRUE)), Arg("flags", 2, IntT(4, FALSE))>>,
        IntT(4, TRUE), <<>>,
        {"Desc"}, [x86_64 |-> 434, aarch64 |-> 434, riscv64 |-> 434]),
  Entry("pidfd_send_signal", <<IntT(4, TRUE), IntT(4, TRUE), PtrT, IntT(4, FALSE)>>,
        <<Arg("pidfd", 1, IntT(4, TRUE)), Arg("sig", 2, IntT(4, TRUE)), Arg("info", 3, OptT(ItemT(FixedT(128)))), Arg("flags", 4, IntT(4, FALSE))>>,
        IntT(4, TRUE), <<>>,
        {"Desc", "Signal", "Process"}, [x86_64 |-> 424, aarch64 |-> 424, riscv64 |-> 424]),
  Entry("pipe", <<PtrT>>,
        <<>>,
        IntT(4, TRUE), <<Arg("pipefd", 1, Array2T(FixedT(4)))>>,
        {"Desc"}, [x86_64 |-> 22]),
  Entry("pipe2", <<PtrT, IntT(4, TRUE)>>,
        <<Arg("flags", 2, IntT(4, TRUE))>>,
        IntT(4, TRUE), <<Arg("pipefd", 1, Array2T(FixedT(4)))>>,
        {"Desc"}, [x86_64 |-> 293, aarch64 |-> 59, riscv64 |-> 59]),
  Entry("pivot_root", <<PtrT, PtrT>>,
        <<Arg("new_root", 1, ItemT(StringT)), Arg("put_old", 2, ItemT(StringT))>>,
        IntT(4, TRUE), <<>>,
        {"File"}, [x86_64 |-> 155, aarch64 |-> 41, riscv64 |-> 41]),
  Entry("pkey_alloc", <<IntT(4, FALSE), IntT(4, FALSE)>>,
        <<Arg("flags", 1, IntT(4, FALSE)), Arg("access_rights", 2, IntT(4, FALSE))>>,
        IntT(4, TRUE), <<>>,
        {}, [x86_64 |-> 330, aarch64 |-> 289, riscv64 |-> 289]),
  Entry("pkey_free", <<IntT(4, TRUE)>>,
        <<Arg("pkey", 1, IntT(4, TRUE))>>,
        IntT(4, TRUE), <<>>,
        {}, [x86_64 |-> 331, aarch64 |-> 290, riscv64 |-> 290]),
  Entry("pkey_mprotect", <<PtrT, IntT(8, FALSE), IntT(4, TRUE), IntT(4, TRUE)>>,
        <<Arg("addr", 1, IntT(8, FALSE)), Arg("len", 2, IntT(8, FALSE)), Arg("prot", 3, IntT(4, TRUE)), Arg("pkey", 4, IntT(4, TRUE))>>,
        IntT(4, TRUE), <<>>,
        {"Memory"}, [x86_64 |-> 329, aarch64 |-> 288, riscv64 |-> 288]),
  Entry("poll", <<PtrT, IntT(8, FALSE), IntT(4, TRUE)>>,
        <<Arg("nfds", 2, IntT(8, FALSE)), Arg("timeout", 3, IntT(4, TRUE))>>,
        IntT(4, TRUE), <<Arg("fds", 1, NoImplT)>>,
        {"Desc"}, [x86_64 |-> 7]),
  Entry("ppoll", <<PtrT, IntT(8, FALSE), PtrT, PtrT>>,
        <<Arg("nfds", 2, IntT(8, FALSE)), Arg("tmo_p", 3, OptT(ItemT(FixedT(16)))), Arg("sigmask", 4, OptT(ItemT(FixedT(128))))>>,
        IntT(4, TRUE), <<Arg("fds", 1, NoImplT)>>,
        {"Desc"}, [x86_64 |-> 271, aarch64 |-> 73, riscv64 |-> 73]),
  Entry("prctl", <<IntT(4, TRUE), IntT(8, FALSE), IntT(8, FALSE), IntT(8, FALSE), IntT(8, FALSE)>>,
        <<Arg("option", 1, IntT(4, TRUE)), Arg("arg2", 2, IntT(8, FALSE)), Arg("arg3", 3, IntT(8, FALSE)), Arg("arg4", 4, IntT(8, FALSE)), Arg("arg5", 5, IntT(8, FALSE))>>,
        IntT(4, TRUE), <<>>,
        {"Clock"}, [x86_64 |-> 157, aarch64 |-> 167, riscv64 |-> 167]),
  Entry("pread64", <<IntT(4, TRUE), PtrT, IntT(8, FALSE), IntT(8, TRUE)>>,
        <<Arg("fd", 1, IntT(4, TRUE)), Arg("count", 3, IntT(8, FALSE)), Arg("offset", 4, IntT(8, TRUE))>>,
        IntT(8, TRUE), <<Arg("buf", 2, VecT(FixedT(1)))>>,
        {"Desc"}, [x86_64 |-> 17, aarch64 |-> 67, riscv64 |-> 67]),
  Entry("preadv", <<IntT(4, TRUE), PtrT, IntT(4, TRUE), IntT(8, TRUE)>>,
        <<Arg("fd", 1, IntT(4, TRUE)), Arg("iov", 2, NoImplT), Arg("offset", 4, IntT(8, TRUE))>>,
        IntT(8, TRUE), <<>>,
        {"Desc"}, [x86_64 |-> 295, aarch64 |-> 69, riscv64 |-> 69]),
  Entry("preadv2", <<IntT(4, TRUE), PtrT, IntT(4, TRUE), IntT(8, TRUE), IntT(4, TRUE)>>,
        <<Arg("fd", 1, IntT(4, TRUE)), Arg("iov", 2, NoImplT), Arg("offset", 4, IntT(8, TRUE)), Arg("flags", 5, IntT(4, TRUE))>>,
        IntT(8, TRUE), <<>>,
        {"Desc"}, [x86_64 |-> 327, aarch64 |-> 286, riscv64 |-> 286]),
  Entry("prlimit64", <<IntT(4, TRUE), IntT(4, TRUE), PtrT, PtrT>>,
        <<Arg("pid", 1, IntT(4, TRUE)), Arg("resource", 2, IntT(4, TRUE)), Arg("new_limit", 3, OptT(ItemT(FixedT(16)))), Arg("old_limit", 4, OptT(ItemT(FixedT(16))))>>,
        IntT(4, TRUE), <<Arg("old_limit", 4, OptT(ItemT(FixedT(16))))>>,
        {}, [x86_64 |-> 302, aarch64 |-> 261, riscv64 |-> 261]),
  Entry("process_madvise", <<IntT(4, TRUE), PtrT, IntT(8, FALSE), IntT(4, TRUE), IntT(4, FALSE)>>,
        <<Arg("pidfd", 1, IntT(4, TRUE)), Arg("iovec", 2, NoImplT), Arg("vlen", 3, IntT(8, FALSE)), Arg("advice", 4, IntT(4, TRUE)), Arg("flags", 5, IntT(4, FALSE))>>,
        IntT(4, TRUE), <<>>,
        {"Desc"}, [x86_64 |-> 440, aarch64 |-> 440, riscv64 |-> 440]),
  Entry("process_mrelease", <<IntT(4, TRUE), IntT(4, FALSE)>>,
        <<Arg("pidfd", 1, IntT(4, TRUE)), Arg("flags", 2, IntT(4, FALSE))>>,
        IntT(4, TRUE), <<>>,
        {"Desc"}, [x86_64 |-> 448, aarch64 |-> 448, riscv64 |-> 448]),
  Entry("process_vm_readv", <<IntT(4, TRUE), PtrT, IntT(8, FALSE), PtrT, IntT(8, FALSE), IntT(8, FALSE)>>,
        <<Arg("pid", 1, IntT(4, TRUE)), Arg("local_iov", 2, NoImplT), Arg("remote_iov", 4, NoImplT), Arg("flags", 6, IntT(8, FALSE))>>,
        IntT(8, TRUE), <<>>,
        {}, [x86_64 |-> 310, aarch64 |-> 270, riscv64 |-> 270]),
  Entry("process_vm_writev", <<IntT(4, TRUE), PtrT, IntT(8, FALSE), PtrT, IntT(8, FALSE), IntT(8, FALSE)>>,
        <<Arg("pid", 1, IntT(4, TRUE)), Arg("local_iov", 2, NoImplT), Arg("remote_iov", 4, NoImplT), Arg("flags", 6, IntT(8, FALSE))>>,
        IntT(8, TRUE), <<>>,
        {}, [x86_64 |-> 311, aarch64 |-> 271, riscv64 |-> 271]),
  Entry("pselect6", <<IntT(4, TRUE), PtrT, PtrT, PtrT, PtrT, PtrT>>,
        <<Arg("readfds", 2, OptT(ItemT(FixedT(128)))), Arg("writefds", 3, OptT(ItemT(FixedT(128)))), Arg("exceptfds", 4, OptT(ItemT(FixedT(128)))), Arg("timeout", 5, OptT(ItemT(FixedT(16)))), Arg("sigmask", 6, OptT(ItemT(FixedT(128))))>>,
        IntT(4, TRUE), <<Arg("readfds", 2, OptT(ItemT(FixedT(128)))), Arg("writefds", 3, OptT(ItemT(FixedT(128)))), Arg("exceptfds", 4, OptT(ItemT(FixedT(128))))>>,
        {"Desc"}, [x86_64 |-> 270, aarch64 |-> 72, riscv64 |-> 72]),
  Entry("ptrace", <<IntT(4, TRUE), IntT(4, TRUE), PtrT, PtrT>>,
        <<>>,
        IntT(8, TRUE), <<>>,
        {}, [x86_64 |-> 101, aarch64 |-> 117, riscv64 |-> 117]),
  Entry("pwrite64", <<IntT(4, TRUE), PtrT, IntT(8, FALSE), IntT(8, TRUE)>>,
        <<Arg("fd", 1, IntT(4, TRUE)), Arg("buf", 2, VecT(FixedT(1))), Arg("count", 3, IntT(8, FALSE)), Arg("offset", 4, IntT(8, TRUE))>>,
        IntT(8, TRUE), <<>>,
        {"Desc"}, [x86_64 |-> 18, aarch64 |-> 68, riscv64 |-> 68]),
  Entry("pwritev", <<IntT(4, TRUE), PtrT, IntT(4, TRUE), IntT(8, TRUE)>>,
        <<Arg("fd", 1, IntT(4, TRUE)), Arg("iov", 2, NoImplT), Arg("offset", 4, IntT(8, TRUE))>>,
        IntT(8, TRUE), <<>>,
        {"Desc"}, [x86_64 |-> 296, aarch64 |-> 70, riscv64 |-> 70]),
  Entry("pwritev2", <<IntT(4, TRUE), PtrT, IntT(4, TRUE), IntT(8, TRUE), IntT(4, TRUE)>>,
        <<Arg("fd", 1, IntT(4, TRUE)), Arg("iov", 2, NoImplT), Arg("offset", 4, IntT(8, TRUE)), Arg("flags", 5, IntT(4, TRUE))>>,
        IntT(8, TRUE), <<>>,
        {"Desc"}, [x86_64 |-> 328, aarch64 |-> 287, riscv64 |-> 287]),
  Entry("quotactl", <<IntT(4, TRUE), PtrT, IntT(4, FALSE), IntT(8, FALSE)>>,
        <<Arg("cmd", 1, IntT(4, TRUE)), Arg("special", 2, OptT(ItemT(StringT))), Arg("id", 3, IntT(4, FALSE))>>,
        IntT(4, TRUE), <<>>,
        {"File"}, [x86_64 |-> 179, aarch64 |-> 60, riscv64 |-> 60]),
  Entry("quotactl_fd", <<IntT(4, TRUE), IntT(4, TRUE), IntT(4, TRUE), IntT(8, FALSE)>>,
        <<Arg("fd", 1, IntT(4, TRUE)), Arg("cmd", 2, IntT(4, TRUE)), Arg("id", 3, IntT(4, TRUE))>>,
        IntT(4, TRUE), <<>>,
        {"Desc"}, [x86_64 |-> 443, aarch64 |-> 443, riscv64 |-> 443]),
  Entry("read", <<IntT(4, TRUE), PtrT, IntT(8, FALSE)>>,
        <<Arg("fd", 1, IntT(4, TRUE)), Arg("count", 3, IntT(8, FALSE))>>,
        IntT(8, TRUE), <<Arg("buf", 2, VecT(FixedT(1)))>>,
        {"Desc"}, [x86_64 |-> 0, aarch64 |-> 63, riscv64 |-> 63]),
  Entry("readahead", <<IntT(4, TRUE), IntT(8, TRUE), IntT(8, FALSE)>>,
        <<Arg("fd", 1, IntT(4, TRUE)), Arg("offset", 2, IntT(8, TRUE)), Arg("count", 3, IntT(8, FALSE))>>,
        IntT(8, TRUE), <<>>,
        {"Desc"}, [x86_64 |-> 187, aarch64 |-> 213, riscv64 |-> 213]),
  Entry("readlink", <<PtrT, PtrT, IntT(8, FALSE)>>,
        <<Arg("pathname", 1, ItemT(StringT)), Arg("bufsiz", 3, IntT(8, FALSE))>>,
        IntT(8, TRUE), <<Arg("buf", 2, VecT(FixedT(1)))>>,
        {"File"}, [x86_64 |-> 89]),
  Entry("readlinkat", <<IntT(4, TRUE), PtrT, PtrT, IntT(8, FALSE)>>,
        <<Arg("dirfd", 1, IntT(4, TRUE)), Arg("pathname", 2, ItemT(StringT)), Arg("bufsiz", 4, IntT(8, FALSE))>>,
        IntT(8, TRUE), <<Arg("buf", 3, VecT(FixedT(1)))>>,
        {"Desc", "File"}, [x86_64 |-> 267, aarch64 |-> 78, riscv64 |-> 78]),
  Entry("readv", <<IntT(4, TRUE), PtrT, IntT(4, TRUE)>>,
        <<Arg("fd", 1, IntT(4, TRUE)), Arg("iov", 2, NoImplT)>>,
        IntT(8, TRUE), <<>>,
        {"Desc"}, [x86_64 |-> 19, aarch64 |-> 65, riscv64 |-> 65]),
  Entry("reboot", <<IntT(4, TRUE), IntT(4, TRUE), IntT(4, TRUE), PtrT>>,
        <<Arg("magic", 1, IntT(4, TRUE)), Arg("magic2", 2, IntT(4, TRUE)), Arg("cmd", 3, IntT(4, TRUE))>>,
        IntT(4, TRUE), <<>>,
        {}, [x86_64 |-> 169, aarch64 |-> 142, riscv64 |-> 142]),
  Entry("recvfrom", <<IntT(4, TRUE), PtrT, IntT(8, FALSE), IntT(4, TRUE), PtrT, PtrT>>,
        <<Arg("sockfd", 1, IntT(4, TRUE)), Arg("len", 3, IntT(8, FALSE)), Arg("flags", 4, IntT(4, TRUE)), Arg("src_addr", 5, OptT(ItemT(FixedT(16))))>>,
        IntT(8, TRUE), <<Arg("buf", 2, VecT(FixedT(1)))>>,
        {"Network"}, [x86_64 |-> 45, aarch64 |-> 207, riscv64 |-> 207]),
  Entry("recvmmsg", <<IntT(4, TRUE), PtrT, IntT(4, FALSE), IntT(4, TRUE), PtrT>>,
        <<Arg("sockfd", 1, IntT(4, TRUE)), Arg("vlen", 3, IntT(4, FALSE)), Arg("flags", 4, IntT(4, TRUE)), Arg("msgvec", 2, NoImplT), Arg("timeout", 5, OptT(ItemT(FixedT(16))))>>,
        IntT(4, TRUE), <<>>,
        {"Network"}, [x86_64 |-> 299, aarch64 |-> 243, riscv64 |-> 243]),
  Entry("recvmsg", <<IntT(4, TRUE), PtrT, IntT(4, TRUE)>>,
        <<Arg("sockfd", 1, IntT(4, TRUE)), Arg("flags", 3, IntT(4, TRUE)), Arg("msg", 2, ItemT(FixedT(56)))>>,
        IntT(8, TRUE), <<Arg("msg", 2, ItemT(FixedT(56)))>>,
        {"Network"}, [x86_64 |-> 47, aarch64 |-> 212, riscv64 |-> 212]),
  Entry("remap_file_pages", <<PtrT, IntT(8, FALSE), IntT(4, TRUE), IntT(8, FALSE), IntT(4, TRUE)>>,
        <<Arg("addr", 1, IntT(8, FALSE)), Arg("size", 2, IntT(8, FALSE)), Arg("prot", 3, IntT(4, TRUE)), Arg("pgoff", 4, IntT(8, FALSE)), Arg("flags", 5, IntT(4, TRUE))>>,
        IntT(4, TRUE), <<>>,
        {"Memory"}, [x86_64 |-> 216, aarch64 |-> 234, riscv64 |-> 234]),
  Entry("removexattr", <<PtrT, PtrT>>,
        <<Arg("path", 1, ItemT(StringT)), Arg("name", 2, ItemT(StringT))>>,
        IntT(4, TRUE), <<>>,
        {"File"}, [x86_64 |-> 197, aarch64 |-> 14, riscv64 |-> 14]),
  Entry("rename", <<PtrT, PtrT>>,
        <<Arg("oldpath", 1, ItemT(StringT)), Arg("newpath", 2, ItemT(StringT))>>,
        IntT(4, TRUE), <<>>,
        {"File"}, [x86_64 |-> 82]),
  Entry("renameat", <<IntT(4, TRUE), PtrT, IntT(4, TRUE), PtrT>>,
        <<Arg("olddirfd", 1, IntT(4, TRUE)), Arg("oldpath", 2, ItemT(StringT)), Arg("newdirfd", 3, IntT(4, TRUE)), Arg("newpath", 4, ItemT(StringT))>>,
        IntT(4, TRUE), <<>>,
        {"Desc", "File"}, [x86_64 |-> 264, aarch64 |-> 38]),
  Entry("renameat2", <<IntT(4, TRUE), PtrT, IntT(4, TRUE), PtrT, IntT(4, FALSE)>>,
        <<Arg("olddirfd", 1, IntT(4, TRUE)), Arg("oldpath", 2, ItemT(StringT)), Arg("newdirfd", 3, IntT(4, TRUE)), Arg("newpath", 4, ItemT(StringT)), Arg("flags", 5, IntT(4, FALSE))>>,
        IntT(4, TRUE), <<>>,
        {"Desc", "File"}, [x86_64 |-> 316, aarch64 |-> 276, riscv64 |-> 276]),
  Entry("request_key", <<PtrT, PtrT, PtrT, IntT(4, TRUE)>>,
        <<Arg("r#type", 1, ItemT(StringT)), Arg("description", 2, ItemT(StringT)), Arg("callout_info", 3, OptT(ItemT(StringT))), Arg("dest_keyring", 4, IntT(4, TRUE))>>,
        IntT(4, TRUE), <<>>,
        {}, [x86_64 |-> 249, aarch64 |-> 218, riscv64 |-> 218]),
  Entry("restart_syscall", <<>>,
        <<>>,
        IntT(8, TRUE), <<>>,
        {}, [x86_64 |-> 219, aarch64 |-> 128, riscv64 |-> 128]),
  Entry("riscv_flush_icache", <<PtrT, PtrT, IntT(8, FALSE)>>,
        <<Arg("start", 1, IntT(8, FALSE)), Arg("end", 2, IntT(8, FALSE)), Arg("flags", 3, IntT(8, FALSE))>>,
        IntT(4, TRUE), <<>>,
        {"Memory"}, [riscv64 |-> 259]),
  Entry("riscv_hwprobe", <<PtrT, IntT(8, FALSE), IntT(8, FALSE), PtrT, IntT(4, FALSE)>>,
        <<Arg("pairs", 1, NoImplT), Arg("pair_count", 2, IntT(8, FALSE)), Arg("cpu_count", 3, IntT(8, FALSE)), Arg("cpus", 4, NoImplT), Arg("flags", 5, IntT(4, FALSE))>>,
        IntT(4, TRUE), <<Arg("pairs", 1, NoImplT)>>,
        {}, [riscv64 |-> 258]),
  Entry("rmdir", <<PtrT>>,
        <<Arg("pathname", 1, ItemT(StringT))>>,
        IntT(4, TRUE), <<>>,
        {"File"}, [x86_64 |-> 84]),
  Entry("rseq", <<PtrT, IntT(4, FALSE), IntT(4, TRUE), IntT(4, FALSE)>>,
        <<Arg("rseq", 1, NoImplT), Arg("rseq_len", 2, IntT(4, FALSE)), Arg("flags", 3, IntT(4, TRUE)), Arg("sig", 4, IntT(4, FALSE))>>,
        IntT(4, TRUE), <<>>,
        {}, [x86_64 |-> 334, aarch64 |-> 293, riscv64 |-> 293]),
  Entry("rt_sigaction", <<IntT(4, TRUE), PtrT, PtrT, IntT(8, FALSE)>>,
        <<Arg("sig", 1, IntT(4, TRUE)), Arg("act", 2, OptT(ItemT(FixedT(152)))), Arg("oact", 3, OptT(ItemT(FixedT(152)))), Arg("sigsetsize", 4, IntT(8, FALSE))>>,
        IntT(4, TRUE), <<Arg("oact", 3, OptT(ItemT(FixedT(152))))>>,
        {"Signal"}, [x86_64 |-> 13, aarch64 |-> 134, riscv64 |-> 134]),
  Entry("rt_sigpending", <<PtrT, IntT(8, FALSE)>>,
        <<Arg("set", 1, ItemT(FixedT(128))), Arg("sigsetsize", 2, IntT(8, FALSE))>>,
        IntT(4, TRUE), <<>>,
        {"Signal"}, [x86_64 |-> 127, aarch64 |-> 136, riscv64 |-> 136]),
  Entry("rt_sigprocmask", <<IntT(4, TRUE), PtrT, PtrT, IntT(8, FALSE)>>,
        <<Arg("how", 1, IntT(4, TRUE)), Arg("set", 2, OptT(ItemT(FixedT(128)))), Arg("oldset", 3, OptT(ItemT(FixedT(128)))), Arg("sigsetsize", 4, IntT(8, FALSE))>>,
        IntT(4, TRUE), <<Arg("oldset", 3, OptT(ItemT(FixedT(128))))>>,
        {"Signal"}, [x86_64 |-> 14, aarch64 |-> 135, riscv64 |-> 135]),
  Entry("rt_sigqueueinfo", <<IntT(4, TRUE), IntT(4, TRUE), PtrT>>,
        <<Arg("pid", 1, IntT(4, TRUE)), Arg("sig", 2, IntT(4, TRUE)), Arg("info", 3, ItemT(FixedT(128)))>>,
        IntT(4, TRUE), <<>>,
        {"Signal", "Process"}, [x86_64 |-> 129, aarch64 |-> 138, riscv64 |-> 138]),
  Entry("rt_sigreturn", <<PtrT>>,
        <<>>,
        IntT(4, TRUE), <<>>,
        {"Signal"}, [x86_64 |-> 15, aarch64 |-> 139, riscv64 |-> 139]),
  Entry("rt_sigsuspend", <<PtrT, IntT(8, FALSE)>>,
        <<Arg("newset", 1, ItemT(FixedT(128))), Arg("sigsetsize", 2, IntT(8, FALSE))>>,
        IntT(4, TRUE), <<>>,
        {"Signal"}, [x86_64 |-> 130, aarch64 |-> 133, riscv64 |-> 133]),
  Entry("rt_sigtimedwait", <<PtrT, PtrT, PtrT, IntT(8, FALSE)>>,
        <<Arg("set", 1, ItemT(FixedT(128))), Arg("info", 2, ItemT(FixedT(128))), Arg("timeout", 3, ItemT(FixedT(16))), Arg("sigsetsize", 4, IntT(8, FALSE))>>,
        IntT(4, TRUE), <<Arg("info", 2, OptT(ItemT(FixedT(128))))>>,
        {"Signal"}, [x86_64 |-> 128, aarch64 |-> 137, riscv64 |-> 137]),
  Entry("rt_tgsigqueueinfo", <<IntT(4, TRUE), IntT(4, TRUE), IntT(4, TRUE), PtrT>>,
        <<Arg("tgid", 1, IntT(4, TRUE)), Arg("pid", 2, IntT(4, TRUE)), Arg("sig", 3, IntT(4, TRUE)), Arg("info", 4, ItemT(FixedT(128)))>>,
        IntT(4, TRUE), <<>>,
        {"Signal", "Process"}, [x86_64 |-> 297, aarch64 |-> 240, riscv64 |-> 240]),
  Entry("sched_get_priority_max", <<IntT(4, TRUE)>>,
        <<Arg("policy", 1, IntT(4, TRUE))>>,
        IntT(4, TRUE), <<>>,
        {}, [x86_64 |-> 146, aarch64 |-> 125, riscv64 |-> 125]),
  Entry("sched_get_priority_min", <<IntT(4, TRUE)>>,
        <<Arg("policy", 1, IntT(4, TRUE))>>,
        IntT(4, TRUE), <<>>,
        {}, [x86_64 |-> 147, aarch64 |-> 126, riscv64 |-> 126]),
  Entry("sched_getaffinity", <<IntT(4, TRUE), IntT(8, FALSE), PtrT>>,
        <<Arg("pid", 1, IntT(4, TRUE)), Arg("cpusetsize", 2, IntT(8, FALSE))>>,
        IntT(4, TRUE), <<Arg("mask", 3, VecT(FixedT(1)))>>,
        {}, [x86_64 |-> 204, aarch64 |-> 123, riscv64 |-> 123]),
  Entry("sched_getattr", <<IntT(4, TRUE), PtrT, IntT(4, FALSE), IntT(4, FALSE)>>,
        <<Arg("pid", 1, IntT(4, TRUE)), Arg("size", 3, IntT(4, FALSE)), Arg("flags", 4, IntT(4, FALSE))>>,
        IntT(4, TRUE), <<Arg("attr", 2, ItemT(FixedT(56)))>>,
        {}, [x86_64 |-> 315, aarch64 |-> 275, riscv64 |-> 275]),
  Entry("sched_getparam", <<IntT(4, TRUE), PtrT>>,
        <<Arg("pid", 1, IntT(4, TRUE))>>,
        IntT(4, TRUE), <<Arg("param", 2, ItemT(FixedT(4)))>>,
        {}, [x86_64 |-> 143, aarch64 |-> 121, riscv64 |-> 121]),
  Entry("sched_getscheduler", <<IntT(4, TRUE)>>,
        <<Arg("pid", 1, IntT(4, TRUE))>>,
        IntT(4, TRUE), <<>>,
        {}, [x86_64 |-> 145, aarch64 |-> 120, riscv64 |-> 120]),
  Entry("sched_rr_get_interval", <<IntT(4, TRUE), PtrT>>,
        <<Arg("pid", 1, IntT(4, TRUE))>>,
        IntT(4, TRUE), <<Arg("tp", 2, ItemT(FixedT(16)))>>,
        {}, [x86_64 |-> 148, aarch64 |-> 127, riscv64 |-> 127]),
  Entry("sched_setaffinity", <<IntT(4, TRUE), IntT(8, FALSE), PtrT>>,
        <<Arg("pid", 1, IntT(4, TRUE)), Arg("cpusetsize", 2, IntT(8, FALSE)), Arg("mask", 3, VecT(FixedT(1)))>>,
        IntT(4, TRUE), <<>>,
        {}, [x86_64 |-> 203, aarch64 |-> 122, riscv64 |-> 122]),
  Entry("sched_setattr", <<IntT(4, TRUE), PtrT, IntT(4, FALSE)>>,
        <<Arg("pid", 1, IntT(4, TRUE)), Arg("attr", 2, ItemT(FixedT(56))), Arg("flags", 3, IntT(4, FALSE))>>,
        IntT(4, TRUE), <<>>,
        {}, [x86_64 |-> 314, aarch64 |-> 274, riscv64 |-> 274]),
  Entry("sched_setparam", <<IntT(4, TRUE), PtrT>>,
        <<Arg("pid", 1, IntT(4, TRUE)), Arg("param", 2, ItemT(FixedT(4)))>>,
        IntT(4, TRUE), <<>>,
        {}, [x86_64 |-> 142, aarch64 |-> 118, riscv64 |-> 118]),
  Entry("sched_setscheduler", <<IntT(4, TRUE), IntT(4, TRUE), PtrT>>,
        <<Arg("pid", 1, IntT(4, TRUE)), Arg("policy", 2, IntT(4, TRUE)), Arg("param", 3, ItemT(FixedT(4)))>>,
        IntT(4, TRUE), <<>>,
        {}, [x86_64 |-> 144, aarch64 |-> 119, riscv64 |-> 119]),
  Entry("sched_yield", <<>>,
        <<>>,
        IntT(4, TRUE), <<>>,
        {}, [x86_64 |-> 24, aarch64 |-> 124, riscv64 |-> 124]),
  Entry("seccomp", <<IntT(4, TRUE), IntT(4, FALSE), PtrT>>,
        <<Arg("operation", 1, IntT(4, TRUE)), Arg("flags", 2, IntT(4, FALSE))>>,
        IntT(4, TRUE), <<>>,
        {}, [x86_64 |-> 317, aarch64 |-> 277, riscv64 |-> 277]),
  Entry("select", <<IntT(4, TRUE), PtrT, PtrT, PtrT, PtrT>>,
        <<Arg("nfds", 1, IntT(4, TRUE)), Arg("readfds", 2, OptT(ItemT(FixedT(128)))), Arg("writefds", 3, OptT(ItemT(FixedT(128)))), Arg("exceptfds", 4, OptT(ItemT(FixedT(128)))), Arg("timeout", 5, OptT(ItemT(FixedT(16))))>>,
        IntT(4, TRUE), <<Arg("readfds", 2, OptT(ItemT(FixedT(128)))), Arg("writefds", 3, OptT(ItemT(FixedT(128)))), Arg("exceptfds", 4, OptT(ItemT(FixedT(128))))>>,
        {"Desc"}, [x86_64 |-> 23]),
  Entry("semctl", <<IntT(4, TRUE), IntT(4, TRUE), IntT(4, TRUE), PtrT>>,
        <<Arg("semid", 1, IntT(4, TRUE)), Arg("semnum", 2, IntT(4, TRUE)), Arg("cmd", 3, IntT(4, TRUE))>>,
        IntT(4, TRUE), <<>>,
        {"IPC"}, [x86_64 |-> 66, aarch64 |-> 191, riscv64 |-> 191]),
  Entry("semget", <<IntT(4, TRUE), IntT(4, TRUE), IntT(4, TRUE)>>,
        <<Arg("key", 1, IntT(4, TRUE)), Arg("nsems", 2, IntT(4, TRUE)), Arg("semflg", 3, IntT(4, TRUE))>>,
        IntT(4, TRUE), <<>>,
        {"IPC"}, [x86_64 |-> 64, aarch64 |-> 190, riscv64 |-> 190]),
  Entry("semop", <<IntT(4, TRUE), PtrT, IntT(8, FALSE)>>,
        <<Arg("semid", 1, IntT(4, TRUE)), Arg("nsops", 3, IntT(4, FALSE)), Arg("sops", 2, NoImplT)>>,
        IntT(4, TRUE), <<>>,
        {"IPC"}, [x86_64 |-> 65, aarch64 |-> 193, riscv64 |-> 193]),
  Entry("semtimedop", <<IntT(4, TRUE), PtrT, IntT(8, FALSE), PtrT>>,
        <<Arg("semid", 1, IntT(4, TRUE)), Arg("nsops", 3, IntT(4, FALSE)), Arg("sops", 2, NoImplT), Arg("timeout", 4, OptT(ItemT(FixedT(16))))>>,
        IntT(4, TRUE), <<>>,
        {"IPC"}, [x86_64 |-> 220, aarch64 |-> 192, riscv64 |-> 192]),
  Entry("sendfile", <<IntT(4, TRUE), IntT(4, TRUE), PtrT, IntT(8, FALSE)>>,
        <<Arg("out_fd", 1, IntT(4, TRUE)), Arg("in_fd", 2, IntT(4, TRUE)), Arg("offset", 3, IntT(8, TRUE)), Arg("count", 4, IntT(8, FALSE))>>,
        IntT(8, TRUE), <<>>,
        {"Desc", "Network"}, [x86_64 |-> 40, aarch64 |-> 71, riscv64 |-> 71]),
  Entry("sendmmsg", <<IntT(4, TRUE), PtrT, IntT(4, FALSE), IntT(4, TRUE)>>,
        <<Arg("sockfd", 1, IntT(4, TRUE)), Arg("vlen", 3, IntT(4, FALSE)), Arg("flags", 4, IntT(4, TRUE)), Arg("msgvec", 2, NoImplT)>>,
        IntT(4, TRUE), <<>>,
        {"Network"}, [x86_64 |-> 307, aarch64 |-> 269, riscv64 |-> 269]),
  Entry("sendmsg", <<IntT(4, TRUE), PtrT, IntT(4, TRUE)>>,
        <<Arg("sockfd", 1, IntT(4, TRUE)), Arg("flags", 3, IntT(4, TRUE)), Arg("msg", 2, ItemT(FixedT(56)))>>,
        IntT(8, TRUE), <<>>,
        {"Network"}, [x86_64 |-> 46, aarch64 |-> 211, riscv64 |-> 211]),
  Entry("sendto", <<IntT(4, TRUE), PtrT, IntT(8, FALSE), IntT(4, TRUE), PtrT, IntT(4, FALSE)>>,
        <<Arg("sockfd", 1, IntT(4, TRUE)), Arg("buf", 2, VecT(FixedT(1))), Arg("flags", 4, IntT(4, TRUE)), Arg("dest_addr", 5, OptT(ItemT(FixedT(16))))>>,
        IntT(8, TRUE), <<>>,
        {"Network"}, [x86_64 |-> 44, aarch64 |-> 206, riscv64 |-> 206]),
  Entry("set_mempolicy", <<IntT(4, TRUE), PtrT, IntT(8, FALSE)>>,
        <<Arg("mode", 1, IntT(4, TRUE)), Arg("nodemask", 2, NoImplT), Arg("maxnode", 3, IntT(8, FALSE))>>,
        IntT(4, TRUE), <<>>,
        {"Memory"}, [x86_64 |-> 238, aarch64 |-> 237, riscv64 |-> 237]),
  Entry("set_mempolicy_home_node", <<IntT(8, FALSE), IntT(8, FALSE), IntT(8, FALSE), IntT(8, FALSE)>>,
        <<Arg("start", 1, IntT(8, FALSE)), Arg("len", 2, IntT(8, FALSE)), Arg("home_mode", 3, IntT(8, FALSE)), Arg("flags", 4, IntT(8, FALSE))>>,
        IntT(4, TRUE), <<>>,
        {"Memory"}, [x86_64 |-> 450, aarch64 |-> 450, riscv64 |-> 450]),
  Entry("set_robust_list", <<PtrT, IntT(8, FALSE)>>,
        <<Arg("head", 1, IntT(8, FALSE)), Arg("len", 2, IntT(8, FALSE))>>,
        IntT(8, TRUE), <<>>,
        {}, [x86_64 |-> 273, aarch64 |-> 99, riscv64 |-> 99]),
  Entry("set_thread_area", <<PtrT>>,
        <<Arg("u_info", 1, ItemT(FixedT(16)))>>,
        IntT(4, TRUE), <<>>,
        {}, [x86_64 |-> 205]),
  Entry("set_tid_address", <<PtrT>>,
        <<Arg("tidptr", 1, IntT(8, FALSE))>>,
        IntT(4, TRUE), <<>>,
        {}, [x86_64 |-> 218, aarch64 |-> 96, riscv64 |-> 96]),
  Entry("setdomainname", <<PtrT, IntT(8, FALSE)>>,
        <<Arg("name", 1, ItemT(StringT))>>,
        IntT(4, TRUE), <<>>,
        {}, [x86_64 |-> 171, aarch64 |-> 162, riscv64 |-> 162]),
  Entry("setfsgid", <<IntT(4, FALSE)>>,
        <<Arg("fsgid", 1, IntT(4, FALSE))>>,
        IntT(4, TRUE), <<>>,
        {"Creds"}, [x86_64 |-> 123, aarch64 |-> 152, riscv64 |-> 152]),
  Entry("setfsuid", <<IntT(4, FALSE)>>,
        <<Arg("fsuid", 1, IntT(4, FALSE))>>,
        IntT(4, TRUE), <<>>,
        {"Creds"}, [x86_64 |-> 122, aarch64 |-> 151, riscv64 |-> 151]),
  Entry("setgid", <<IntT(4, FALSE)>>,
        <<Arg("gid", 1, IntT(4, FALSE))>>,
        IntT(4, TRUE), <<>>,
        {"Creds"}, [x86_64 |-> 106, aarch64 |-> 144, riscv64 |-> 144]),
  Entry("setgroups", <<IntT(8, FALSE), PtrT>>,
        <<Arg("list", 2, NoImplT)>>,
        IntT(4, TRUE), <<>>,
        {"Creds"}, [x86_64 |-> 116, aarch64 |-> 159, riscv64 |-> 159]),
  Entry("sethostname", <<PtrT, IntT(8, FALSE)>>,
        <<Arg("name", 1, ItemT(StringT)), Arg("len", 2, IntT(8, FALSE))>>,
        IntT(4, TRUE), <<>>,
        {}, [x86_64 |-> 170, aarch64 |-> 161, riscv64 |-> 161]),
  Entry("setitimer", <<IntT(4, TRUE), PtrT, PtrT>>,
        <<Arg("which", 1, IntT(4, TRUE)), Arg("new_value", 2, ItemT(FixedT(32))), Arg("old_value", 3, OptT(ItemT(FixedT(32))))>>,
        IntT(4, TRUE), <<>>,
        {}, [x86_64 |-> 38, aarch64 |-> 103, riscv64 |-> 103]),
  Entry("setns", <<IntT(4, TRUE), IntT(4, TRUE)>>,
        <<Arg("fd", 1, IntT(4, TRUE)), Arg("nstype", 2, IntT(4, TRUE))>>,
        IntT(4, TRUE), <<>>,
        {"Desc"}, [x86_64 |-> 308, aarch64 |-> 268, riscv64 |-> 268]),
  Entry("setpgid", <<IntT(4, TRUE), IntT(4, TRUE)>>,
        <<Arg("pid", 1, IntT(4, TRUE)), Arg("pgid", 2, IntT(4, TRUE))>>,
        IntT(4, TRUE), <<>>,
        {}, [x86_64 |-> 109, aarch64 |-> 154, riscv64 |-> 154]),
  Entry("setpriority", <<IntT(4, TRUE), IntT(4, FALSE), IntT(4, TRUE)>>,
        <<Arg("which", 1, IntT(4, TRUE)), Arg("who", 2, IntT(4, FALSE)), Arg("prio", 3, IntT(4, TRUE))>>,
        IntT(4, TRUE), <<>>,
        {}, [x86_64 |-> 141, aarch64 |-> 140, riscv64 |-> 140]),
  Entry("setregid", <<IntT(4, FALSE), IntT(4, FALSE)>>,
        <<Arg("rgid", 1, IntT(4, FALSE)), Arg("egid", 2, IntT(4, FALSE))>>,
        IntT(4, TRUE), <<>>,
        {"Creds"}, [x86_64 |-> 114, aarch64 |-> 143, riscv64 |-> 143]),
  Entry("setresgid", <<IntT(4, FALSE), IntT(4, FALSE), IntT(4, FALSE)>>,
        <<Arg("rgid", 1, IntT(4, FALSE)), Arg("egid", 2, IntT(4, FALSE)), Arg("sgid", 3, IntT(4, FALSE))>>,
        IntT(4, TRUE), <<>>,
        {"Creds"}, [x86_64 |-> 119, aarch64 |-> 149, riscv64 |-> 149]),
  Entry("setresuid", <<IntT(4, FALSE), IntT(4, FALSE), IntT(4, FALSE)>>,
        <<Arg("ruid", 1, IntT(4, FALSE)), Arg("euid", 2, IntT(4, FALSE)), Arg("suid", 3, IntT(4, FALSE))>>,
        IntT(4, TRUE), <<>>,
        {"Creds"}, [x86_64 |-> 117, aarch64 |-> 147, riscv64 |-> 147]),
  Entry("setreuid", <<IntT(4, FALSE), IntT(4, FALSE)>>,
        <<Arg("ruid", 1, IntT(4, FALSE)), Arg("euid", 2, IntT(4, FALSE))>>,
        IntT(4, TRUE), <<>>,
        {"Creds"}, [x86_64 |-> 113, aarch64 |-> 145, riscv64 |-> 145]),
  Entry("setrlimit", <<IntT(4, TRUE), PtrT>>,
        <<Arg("resource", 1, IntT(4, TRUE)), Arg("rlim", 2, ItemT(FixedT(16)))>>,
        IntT(4, TRUE), <<>>,
        {}, [x86_64 |-> 160, aarch64 |-> 164, riscv64 |-> 164]),
  Entry("setsid", <<>>,
        <<>>,
        IntT(4, TRUE), <<>>,
        {}, [x86_64 |-> 112, aarch64 |-> 157, riscv64 |-> 157]),
  Entry("setsockopt", <<IntT(4, TRUE), IntT(4, TRUE), IntT(4, TRUE), PtrT, IntT(4, FALSE)>>,
        <<Arg("sockfd", 1, IntT(4, TRUE)), Arg("level", 2, IntT(4, TRUE)), Arg("optname", 3, IntT(4, TRUE)), Arg("optval", 4, VecT(FixedT(1)))>>,
        IntT(4, TRUE), <<>>,
        {"Network"}, [x86_64 |-> 54, aarch64 |-> 208, riscv64 |-> 208]),
  Entry("settimeofday", <<PtrT, PtrT>>,
        <<Arg("tv", 1, ItemT(FixedT(16))), Arg("tz", 2, OptT(ItemT(FixedT(8))))>>,
        IntT(4, TRUE), <<>>,
        {"Clock"}, [x86_64 |-> 164, aarch64 |-> 170, riscv64 |-> 170]),
  Entry("setuid", <<IntT(4, FALSE)>>,
        <<Arg("uid", 1, IntT(4, FALSE))>>,
        IntT(4, TRUE), <<>>,
        {"Creds"}, [x86_64 |-> 105, aarch64 |-> 146, riscv64 |-> 146]),
  Entry("setxattr", <<PtrT, PtrT, PtrT, IntT(8, FALSE), IntT(4, TRUE)>>,
        <<Arg("path", 1, ItemT(StringT)), Arg("name", 2, ItemT(StringT)), Arg("value", 3, ItemT(StringT)), Arg("size", 4, IntT(8, FALSE)), Arg("flags", 5, IntT(4, TRUE))>>,
        IntT(4, TRUE), <<>>,
        {"File"}, [x86_64 |-> 188, aarch64 |-> 5, riscv64 |-> 5]),
  Entry("shmat", <<IntT(4, TRUE), PtrT, IntT(4, TRUE)>>,
        <<Arg("shmid", 1, IntT(4, TRUE)), Arg("shmaddr", 2, IntT(8, FALSE)), Arg("shmflg", 3, IntT(4, TRUE))>>,
        IntT(8, FALSE), <<>>,
        {"IPC", "Memory"}, [x86_64 |-> 30, aarch64 |-> 196, riscv64 |-> 196]),
  Entry("shmctl", <<IntT(4, TRUE), IntT(4, TRUE), PtrT>>,
        <<Arg("shmid", 1, IntT(4, TRUE)), Arg("cmd", 2, IntT(4, TRUE)), Arg("buf", 3, ItemT(FixedT(112)))>>,
        IntT(4, TRUE), <<>>,
        {"IPC"}, [x86_64 |-> 31, aarch64 |-> 195, riscv64 |-> 195]),
  Entry("shmdt", <<PtrT>>,
        <<Arg("shmaddr", 1, IntT(8, FALSE))>>,
        IntT(4, TRUE), <<>>,
        {"IPC", "Memory"}, [x86_64 |-> 67, aarch64 |-> 197, riscv64 |-> 197]),
  Entry("shmget", <<IntT(4, TRUE), IntT(8, FALSE), IntT(4, TRUE)>>,
        <<Arg("key", 1, IntT(4, TRUE)), Arg("size", 2, IntT(8, FALSE)), Arg("shmflg", 3, IntT(4, TRUE))>>,
        IntT(4, TRUE), <<>>,
        {"IPC"}, [x86_64 |-> 29, aarch64 |-> 194, riscv64 |-> 194]),
  Entry("shutdown", <<IntT(4, TRUE), IntT(4, TRUE)>>,
        <<Arg("sockfd", 1, IntT(4, TRUE)), Arg("how", 2, IntT(4, TRUE))>>,
        IntT(4, TRUE), <<>>,
        {"Network"}, [x86_64 |-> 48, aarch64 |-> 210, riscv64 |-> 210]),
  Entry("sigaltstack", <<PtrT, PtrT>>,
        <<Arg("ss", 1, OptT(ItemT(FixedT(24))))>>,
        IntT(4, TRUE), <<Arg("old_ss", 2, OptT(ItemT(FixedT(24))))>>,
        {"Signal"}, [x86_64 |-> 131, aarch64 |-> 132, riscv64 |-> 132]),
  Entry("signalfd", <<IntT(4, TRUE), PtrT, IntT(8, FALSE)>>,
        <<Arg("fd", 1, IntT(4, TRUE)), Arg("mask", 2, ItemT(FixedT(128))), Arg("size", 3, IntT(8, FALSE))>>,
        IntT(4, TRUE), <<>>,
        {"Desc", "Signal"}, [x86_64 |-> 282]),
  Entry("signalfd4", <<IntT(4, TRUE), PtrT, IntT(8, FALSE), IntT(4, TRUE)>>,
        <<Arg("fd", 1, IntT(4, TRUE)), Arg("mask", 2, ItemT(FixedT(128))), Arg("size", 3, IntT(8, FALSE)), Arg("flags", 4, IntT(4, TRUE))>>,
        IntT(4, TRUE), <<>>,
        {"Desc", "Signal"}, [x86_64 |-> 289, aarch64 |-> 74, riscv64 |-> 74]),
  Entry("socket", <<IntT(4, TRUE), IntT(4, TRUE), IntT(4, TRUE)>>,
        <<Arg("domain", 1, IntT(4, TRUE)), Arg("r#type", 2, IntT(4, TRUE)), Arg("protocol", 3, IntT(4, TRUE))>>,
        IntT(4, TRUE), <<>>,
        {"Network"}, [x86_64 |-> 41, aarch64 |-> 198, riscv64 |-> 198]),
  Entry("socketpair", <<IntT(4, TRUE), IntT(4, TRUE), IntT(4, TRUE), PtrT>>,
        <<Arg("domain", 1, IntT(4, TRUE)), Arg("r#type", 2, IntT(4, TRUE)), Arg("protocol", 3, IntT(4, TRUE))>>,
        IntT(4, TRUE), <<Arg("sv", 4, Array2T(FixedT(4)))>>,
        {"Network"}, [x86_64 |-> 53, aarch64 |-> 199, riscv64 |-> 199]),
  Entry("splice", <<IntT(4, TRUE), PtrT, IntT(4, TRUE), PtrT, IntT(8, FALSE), IntT(4, FALSE)>>,
        <<Arg("fd_in", 1, IntT(4, TRUE)), Arg("off_in", 2, IntT(8, TRUE)), Arg("fd_out", 3, IntT(4, TRUE)), Arg("off_out", 4, IntT(8, TRUE)), Arg("len", 5, IntT(8, FALSE)), Arg("flags", 6, IntT(4, FALSE))>>,
        IntT(8, TRUE), <<>>,
        {"Desc"}, [x86_64 |-> 275, aarch64 |-> 76, riscv64 |-> 76]),
  Entry("stat", <<PtrT, PtrT>>,
        <<Arg("pathname", 1, ItemT(StringT))>>,
        IntT(4, TRUE), <<Arg("statbuf", 2, ItemT(FixedT(144)))>>,
        {"File", "Stat", "StatLike"}, [x86_64 |-> 4]),
  Entry("statfs", <<PtrT, PtrT>>,
        <<Arg("path", 1, ItemT(StringT))>>,
        IntT(4, TRUE), <<Arg("buf", 2, ItemT(FixedT(120)))>>,
        {"File", "StatFs", "StatFsLike"}, [x86_64 |-> 137, aarch64 |-> 99, riscv64 |-> 99]),
  Entry("statmount", <<PtrT, PtrT, IntT(8, FALSE), IntT(4, FALSE)>>,
        <<Arg("req", 1, ItemT(FixedT(24))), Arg("bufsize", 3, IntT(8, FALSE)), Arg("flags", 4, IntT(4, FALSE))>>,
        IntT(4, TRUE), <<Arg("buf", 2, TodoT)>>,
        {}, [x86_64 |-> 457, aarch64 |-> 457, riscv64 |-> 457]),
  Entry("statx", <<IntT(4, TRUE), PtrT, IntT(4, TRUE), IntT(4, FALSE), PtrT>>,
        <<Arg("dirfd", 1, IntT(4, TRUE)), Arg("pathname", 2, ItemT(StringT)), Arg("flags", 3, IntT(4, TRUE)), Arg("mask", 4, IntT(4, FALSE))>>,
        IntT(4, TRUE), <<Arg("statxbuf", 5, ItemT(FixedT(256)))>>,
        {"Desc", "File", "FStat", "StatLike"}, [x86_64 |-> 332, aarch64 |-> 291, riscv64 |-> 291]),
  Entry("swapoff", <<PtrT>>,
        <<Arg("path", 1, ItemT(StringT))>>,
        IntT(4, TRUE), <<>>,
        {"File"}, [x86_64 |-> 168, aarch64 |-> 255, riscv64 |-> 255]),
  Entry("swapon", <<PtrT, IntT(4, TRUE)>>,
        <<Arg("path", 1, ItemT(StringT)), Arg("swapflags", 2, IntT(4, TRUE))>>,
        IntT(4, TRUE), <<>>,
        {"File"}, [x86_64 |-> 167, aarch64 |-> 224, riscv64 |-> 224]),
  Entry("symlink", <<PtrT, PtrT>>,
        <<Arg("target", 1, ItemT(StringT)), Arg("linkpath", 2, ItemT(StringT))>>,
        IntT(4, TRUE), <<>>,
        {"File"}, [x86_64 |-> 88]),
  Entry("symlinkat", <<PtrT, IntT(4, TRUE), PtrT>>,
        <<Arg("target", 1, ItemT(StringT)), Arg("newdirfd", 2, IntT(4, TRUE)), Arg("linkpath", 3, ItemT(StringT))>>,
        IntT(4, TRUE), <<>>,
        {"Desc", "File"}, [x86_64 |-> 266, aarch64 |-> 36, riscv64 |-> 36]),
  Entry("sync", <<>>,
        <<>>,
        IntT(4, TRUE), <<>>,
        {}, [x86_64 |-> 162, aarch64 |-> 81, riscv64 |-> 81]),
  Entry("sync_file_range", <<IntT(4, TRUE), IntT(8, TRUE), IntT(8, TRUE), IntT(4, FALSE)>>,
        <<Arg("fd", 1, IntT(4, TRUE)), Arg("offset", 2, IntT(8, TRUE)), Arg("nbytes", 3, IntT(8, TRUE)), Arg("flags", 4, IntT(4, FALSE))>>,
        IntT(4, TRUE), <<>>,
        {"Desc"}, [x86_64 |-> 277, aarch64 |-> 84, riscv64 |-> 84]),
  Entry("syncfs", <<IntT(4, TRUE)>>,
        <<Arg("fd", 1, IntT(4, TRUE))>>,
        IntT(4, TRUE), <<>>,
        {"Desc"}, [x86_64 |-> 306, aarch64 |-> 267, riscv64 |-> 267]),
  Entry("sysfs", <<IntT(4, TRUE), IntT(8, FALSE), IntT(8, FALSE)>>,
        <<Arg("option", 1, IntT(4, TRUE)), Arg("arg1", 2, IntT(8, FALSE)), Arg("arg2", 3, IntT(8, FALSE))>>,
        IntT(4, TRUE), <<>>,
        {}, [x86_64 |-> 139]),
  Entry("sysinfo", <<PtrT>>,
        <<>>,
        IntT(4, TRUE), <<Arg("info", 1, ItemT(FixedT(112)))>>,
        {}, [x86_64 |-> 99, aarch64 |-> 179, riscv64 |-> 179]),
  Entry("syslog", <<IntT(4, TRUE), PtrT, IntT(4, TRUE)>>,
        <<Arg("typ", 1, IntT(4, TRUE)), Arg("buf", 2, ItemT(StringT)), Arg("len", 3, IntT(4, TRUE))>>,
        IntT(4, TRUE), <<>>,
        {}, [x86_64 |-> 103, aarch64 |-> 116, riscv64 |-> 116]),
  Entry("tee", <<IntT(4, TRUE), IntT(4, TRUE), IntT(8, FALSE), IntT(4, FALSE)>>,
        <<Arg("fd_in", 1, IntT(4, TRUE)), Arg("fd_out", 2, IntT(4, TRUE)), Arg("len", 3, IntT(8, FALSE)), Arg("flags", 4, IntT(4, FALSE))>>,
        IntT(8, TRUE), <<>>,
        {"Desc"}, [x86_64 |-> 276, aarch64 |-> 77, riscv64 |-> 77]),
  Entry("tgkill", <<IntT(4, TRUE), IntT(4, TRUE), IntT(4, TRUE)>>,
        <<Arg("tgid", 1, IntT(4, TRUE)), Arg("tid", 2, IntT(4, TRUE)), Arg("sig", 3, IntT(4, TRUE))>>,
        IntT(4, TRUE), <<>>,
        {"Signal", "Process"}, [x86_64 |-> 234, aarch64 |-> 131, riscv64 |-> 131]),
  Entry("time", <<PtrT>>,
        <<>>,
        IntT(8, TRUE), <<Arg("tloc", 1, OptT(ItemT(FixedT(8))))>>,
        {"Clock"}, [x86_64 |-> 201]),
  Entry("timer_create", <<IntT(4, TRUE), PtrT, PtrT>>,
        <<Arg("clockid", 1, IntT(4, TRUE)), Arg("sevp", 2, OptT(ItemT(FixedT(64))))>>,
        IntT(4, TRUE), <<Arg("timerid", 3, ItemT(FixedT(8)))>>,
        {}, [x86_64 |-> 222, aarch64 |-> 107, riscv64 |-> 107]),
  Entry("timer_delete", <<IntT(8, FALSE)>>,
        <<Arg("timerid", 1, IntT(8, FALSE))>>,
        IntT(4, TRUE), <<>>,
        {}, [x86_64 |-> 226, aarch64 |-> 111, riscv64 |-> 111]),
  Entry("timer_getoverrun", <<IntT(8, FALSE)>>,
        <<Arg("timerid", 1, IntT(8, FALSE))>>,
        IntT(4, TRUE), <<>>,
        {}, [x86_64 |-> 225, aarch64 |-> 109, riscv64 |-> 109]),
  Entry("timer_gettime", <<IntT(8, FALSE), PtrT>>,
        <<Arg("timerid", 1, IntT(8, FALSE))>>,
        IntT(4, TRUE), <<Arg("curr_value", 2, ItemT(FixedT(32)))>>,
        {}, [x86_64 |-> 224, aarch64 |-> 108, riscv64 |-> 108]),
  Entry("timer_settime", <<IntT(8, FALSE), IntT(4, TRUE), PtrT, PtrT>>,
        <<Arg("timerid", 1, IntT(8, FALSE)), Arg("flags", 2, IntT(4, TRUE)), Arg("new_value", 3, ItemT(FixedT(32)))>>,
        IntT(4, TRUE), <<Arg("old_value", 4, OptT(ItemT(FixedT(32))))>>,
        {}, [x86_64 |-> 223, aarch64 |-> 110, riscv64 |-> 110]),
  Entry("timerfd_create", <<IntT(4, TRUE), IntT(4, TRUE)>>,
        <<Arg("clockid", 1, IntT(4, TRUE)), Arg("flags", 2, IntT(4, TRUE))>>,
        IntT(4, TRUE), <<>>,
        {"Desc"}, [x86_64 |-> 283, aarch64 |-> 85, riscv64 |-> 85]),
  Entry("timerfd_gettime", <<IntT(4, TRUE), PtrT>>,
        <<Arg("fd", 1, IntT(4, TRUE))>>,
        IntT(4, TRUE), <<Arg("curr_value", 2, ItemT(FixedT(32)))>>,
        {"Desc"}, [x86_64 |-> 287, aarch64 |-> 87, riscv64 |-> 87]),
  Entry("timerfd_settime", <<IntT(4, TRUE), IntT(4, TRUE), PtrT, PtrT>>,
        <<Arg("fd", 1, IntT(4, TRUE)), Arg("flags", 2, IntT(4, TRUE)), Arg("new_value", 3, ItemT(FixedT(32)))>>,
        IntT(4, TRUE), <<Arg("old_value", 4, OptT(ItemT(FixedT(32))))>>,
        {"Desc"}, [x86_64 |-> 286, aarch64 |-> 86, riscv64 |-> 86]),
  Entry("times", <<PtrT>>,
        <<>>,
        IntT(8, TRUE), <<Arg("buf", 1, ItemT(FixedT(32)))>>,
        {}, [x86_64 |-> 100, aarch64 |-> 153, riscv64 |-> 153]),
  Entry("tkill", <<IntT(4, TRUE), IntT(4, TRUE)>>,
        <<Arg("tid", 1, IntT(4, TRUE)), Arg("sig", 2, IntT(4, TRUE))>>,
        IntT(4, TRUE), <<>>,
        {"Signal", "Process"}, [x86_64 |-> 200, aarch64 |-> 130, riscv64 |-> 130]),
  Entry("truncate", <<PtrT, IntT(8, TRUE)>>,
        <<Arg("path", 1, ItemT(StringT)), Arg("length", 2, IntT(8, TRUE))>>,
        IntT(4, TRUE), <<>>,
        {"File"}, [x86_64 |-> 76, aarch64 |-> 45, riscv64 |-> 45]),
  Entry("umask", <<IntT(4, FALSE)>>,
        <<Arg("mask", 1, IntT(4, FALSE))>>,
        IntT(4, FALSE), <<>>,
        {}, [x86_64 |-> 95, aarch64 |-> 166, riscv64 |-> 166]),
  Entry("umount2", <<PtrT, IntT(4, TRUE)>>,
        <<Arg("target", 1, ItemT(StringT)), Arg("flags", 2, IntT(4, TRUE))>>,
        IntT(4, TRUE), <<>>,
        {"File"}, [x86_64 |-> 166, aarch64 |-> 39, riscv64 |-> 39]),
  Entry("uname", <<PtrT>>,
        <<>>,
        IntT(4, TRUE), <<Arg("buf", 1, ItemT(FixedT(390)))>>,
        {}, [x86_64 |-> 63, aarch64 |-> 160, riscv64 |-> 160]),
  Entry("unlink", <<PtrT>>,
        <<Arg("pathname", 1, ItemT(StringT))>>,
        IntT(4, TRUE), <<>>,
        {"File"}, [x86_64 |-> 87]),
  Entry("unlinkat", <<IntT(4, TRUE), PtrT, IntT(4, TRUE)>>,
        <<Arg("dirfd", 1, IntT(4, TRUE)), Arg("pathname", 2, ItemT(StringT)), Arg("flags", 3, IntT(4, TRUE))>>,
        IntT(4, TRUE), <<>>,
        {"Desc", "File"}, [x86_64 |-> 263, aarch64 |-> 35, riscv64 |-> 35]),
  Entry("unshare", <<IntT(4, TRUE)>>,
        <<Arg("flags", 1, IntT(4, TRUE))>>,
        IntT(4, TRUE), <<>>,
        {}, [x86_64 |-> 272, aarch64 |-> 97, riscv64 |-> 97]),
  Entry("userfaultfd", <<IntT(4, FALSE)>>,
        <<Arg("flags", 1, IntT(4, FALSE))>>,
        IntT(4, TRUE), <<>>,
        {"Desc"}, [x86_64 |-> 323, aarch64 |-> 282, riscv64 |-> 282]),
  Entry("ustat", <<IntT(8, FALSE), PtrT>>,
        <<Arg("dev", 1, IntT(8, FALSE))>>,
        IntT(4, TRUE), <<Arg("ubuf", 2, ItemT(FixedT(32)))>>,
        {}, [x86_64 |-> 136]),
  Entry("utime", <<PtrT, PtrT>>,
        <<Arg("filename", 1, ItemT(StringT)), Arg("times", 2, OptT(ItemT(FixedT(16))))>>,
        IntT(4, TRUE), <<>>,
        {"File"}, [x86_64 |-> 132]),
  Entry("utimensat", <<IntT(4, TRUE), PtrT, PtrT, IntT(4, TRUE)>>,
        <<Arg("dirfd", 1, IntT(4, TRUE)), Arg("pathname", 2, ItemT(StringT)), Arg("times", 3, OptT(Array2T(FixedT(16)))), Arg("flags", 4, IntT(4, TRUE))>>,
        IntT(4, TRUE), <<>>,
        {"Desc", "File"}, [x86_64 |-> 280, aarch64 |-> 88, riscv64 |-> 88]),
  Entry("utimes", <<PtrT, PtrT>>,
        <<Arg("filename", 1, ItemT(StringT)), Arg("times", 2, OptT(Array2T(FixedT(16))))>>,
        IntT(4, TRUE), <<>>,
        {"File"}, [x86_64 |-> 235]),
  Entry("vfork", <<>>,
        <<>>,
        IntT(4, TRUE), <<>>,
        {"Process"}, [x86_64 |-> 58]),
  Entry("vhangup", <<>>,
        <<>>,
        IntT(4, TRUE), <<>>,
        {}, [x86_64 |-> 153, aarch64 |-> 58, riscv64 |-> 58]),
  Entry("vmsplice", <<IntT(4, TRUE), PtrT, IntT(8, FALSE), IntT(4, FALSE)>>,
        <<Arg("fd", 1, IntT(4, TRUE)), Arg("iov", 2, NoImplT), Arg("flags", 4, IntT(4, FALSE))>>,
        IntT(8, TRUE), <<>>,
        {"Desc"}, [x86_64 |-> 278, aarch64 |-> 75, riscv64 |-> 75]),
  Entry("wait4", <<IntT(4, TRUE), PtrT, IntT(4, TRUE), PtrT>>,
        <<Arg("pid", 1, IntT(4, TRUE)), Arg("options", 3, IntT(4, TRUE))>>,
        IntT(4, TRUE), <<Arg("wstatus", 2, ItemT(FixedT(4))), Arg("rusage", 4, OptT(ItemT(FixedT(144))))>>,
        {"Process"}, [x86_64 |-> 61, aarch64 |-> 260, riscv64 |-> 260]),
  Entry("waitid", <<IntT(4, FALSE), IntT(4, FALSE), PtrT, IntT(4, TRUE)>>,
        <<Arg("idtype", 1, IntT(4, FALSE)), Arg("id", 2, IntT(4, FALSE)), Arg("options", 4, IntT(4, TRUE))>>,
        IntT(4, TRUE), <<Arg("infop", 3, OptT(ItemT(FixedT(128))))>>,
        {"Process"}, [x86_64 |-> 247, aarch64 |-> 95, riscv64 |-> 95]),
  Entry("write", <<IntT(4, TRUE), PtrT, IntT(8, FALSE)>>,
        <<Arg("fd", 1, IntT(4, TRUE)), Arg("buf", 2, VecT(FixedT(1)))>>,
        IntT(8, TRUE), <<>>,
        {"Desc"}, [x86_64 |-> 1, aarch64 |-> 64, riscv64 |-> 64]),
  Entry("writev", <<IntT(4, TRUE), PtrT, IntT(4, TRUE)>>,
        <<Arg("fd", 1, IntT(4, TRUE)), Arg("iov", 2, NoImplT)>>,
        IntT(8, TRUE), <<>>,
        {"Desc"}, [x86_64 |-> 20, aarch64 |-> 66, riscv64 |-> 66])
>>

----------------------------------------------------------------------------
(* The architecture adapter: positional accessors of a register snapshot   *)
(* [nr, args, res], each slot an unsigned machine word.                    *)

syscall_no_from_regs(r) == r.nr
syscall_arg(r, i) == r.args[i + 1]
syscall_res_from_regs(r) == r.res

----------------------------------------------------------------------------
(* The generated records and their dispatch (tracer-syscalls-macros)       *)

\* pub const SYS_<name>: isize, for an entry compiled for the target.
HasArch(i) == arch \in DOMAIN Table[i].archs
SYS(i) == Table[i].archs[arch]

\* A raw record: variant is the entry's position in the table, 0 for
\* Unknown; vals are the raw fields in declaration order (for Unknown the
\* six slots); number is what syscall_number() reports.
RawArgs(variant, number, vals) ==
    [variant |-> variant, number |-> number, vals |-> vals]

\* <Name>RawArgs::from_regs
RawArgs_from_regs(i, r) ==
    RawArgs(i, SYS(i),
            [k \in 1 .. Len(Table[i].raw) |->
                Cast(syscall_arg(r, k - 1), Table[i].raw[k].T.size,
                     Table[i].raw[k].signed)])

\* UnknownArgs::from_regs storing the slots in reverse order
UnknownArgs_from_regs_reversed(r) ==
    RawArgs(0, AsIsize(syscall_no_from_regs(r)),
            [k \in 1 .. 6 |-> AsUsize(syscall_arg(r, 6 - k))])

UnknownArgs_from_regs(r) ==
    RawArgs(0, AsIsize(syscall_no_from_regs(r)),
            [k \in 1 .. 6 |-> AsUsize(syscall_arg(r, k - 1))])

\* The arms of the match in SyscallRawArgs::from_regs that are compiled for
\* the target and whose pattern equals n; the first one in table order is
\* the arm taken.
MatchingArms(n) == {i \in 1 .. Len(Table) : HasArch(i) /\ SYS(i) = n}
FirstArm(S) == CHOOSE i \in S : \A j \in S : i <= j

FromArms(S, r) ==
    IF S = {} THEN UnknownArgs_from_regs(r)
    ELSE RawArgs_from_regs(FirstArm(S), r)

SyscallRawArgs_from_regs(r) ==
    FromArms(MatchingArms(AsIsize(syscall_no_from_regs(r))), r)

\* A getter that reports no category for any record
syscall_groups_none(i) == {}

\* syscall_groups() of a record of variant i
syscall_groups(i) == IF i = 0 THEN {} ELSE Table[i].groups

Panic == [tag |-> "Panic", errno |-> "", partial |-> None, val |-> None]
NoDecoder == [tag |-> "NoDecoder", errno |-> "", partial |-> None, val |-> None]

\* InspectFromPid::inspect_from for the wrapped type of a field
InspectFromPid(ty, address, env) ==
    CASE ty.shape = "item" /\ ~ty.opt -> inspect_item(ty.T, address, env)
      [] ty.shape = "item" /\ ty.opt ->
            inspect_option(address, inspect_item(ty.T, address, env), env)
      [] ty.shape = "vec" /\ ~ty.opt -> read_null_ended_array(ty.T, address, env)
      [] ty.shape = "vec" /\ ty.opt ->
            inspect_option(address, read_null_ended_array(ty.T, address, env), env)
      [] ty.shape = "array2" /\ ~ty.opt -> inspect_array2(ty.T, address, env)
      [] ty.shape = "array2" /\ ty.opt -> inspect_option_array2(ty.T, address, env)
      [] ty.shape = "todo" -> Ret(Panic, <<>>, env.flag)
      [] OTHER -> Ret(NoDecoder, <<>>, env.flag)

\* The `let #arg_name = ...;` statements of a record, in order, from field k
\* on.  vals are the fields of the raw record.  A field that is not
\* inspected is the raw field converted with `as`; rest is what the later
\* statements give, r what inspect_from returned for this one.
NoFields(flag) ==
    [fields |-> <<>>, log |-> <<>>, flag |-> flag, panicked |-> FALSE]
Panicked(r) ==
    [fields |-> <<>>, log |-> r.log, flag |-> r.flag, panicked |-> TRUE]
FieldInt(a, v, rest) ==
    [rest EXCEPT !.fields = <<Cast(v, a.ty.T.size, a.ty.signed)>> \o rest.fields]
FieldCons(r, rest) ==
    [fields |-> <<r.res>> \o rest.fields, log |-> r.log \o rest.log,
     flag |-> rest.flag, panicked |-> rest.panicked]

RECURSIVE InspectFields(_, _, _, _)
FieldRead(args, vals, env, k, r) ==
    IF r.res.tag = "Panic" THEN Panicked(r)
    ELSE FieldCons(r, InspectFields(args, vals, [env EXCEPT !.flag = r.flag], k + 1))

FieldAt(args, vals, env, k, a) ==
    IF a.ty.shape = "int"
    THEN FieldInt(a, vals[a.slot], InspectFields(args, vals, env, k + 1))
    ELSE FieldRead(args, vals, env, k,
                   InspectFromPid(a.ty, AsUsize(vals[a.slot]), env))

InspectFields(args, vals, env, k) ==
    IF k > Len(args) THEN NoFields(env.flag)
    ELSE FieldAt(args, vals, env, k, args[k])

\* An entry or exit record; syscall_result is None in an entry record and
\* Some(result) in an exit record (Some(<<>>) for the unit value).
Record(variant, number, syscall_result, fields, panicked) ==
    [variant |-> variant, number |-> number, syscall_result |-> syscall_result,
     fields |-> fields, panicked |-> panicked]

Done(rec, lg, flag) == [rec |-> rec, log |-> lg, flag |-> flag]

\* The Unknown variant of either union carrying the raw record u.
UnknownRecord(u, flag) == Done(Record(0, u.number, None, u.vals, FALSE), <<>>, flag)

\* impl SyscallStopInspect for SyscallRawArgs: inspect_sysenter; d is what
\* the record's `let` statements gave.
EntryRecord(raw, d) ==
    Done(Record(raw.variant, raw.number, None, d.fields, d.panicked), d.log, d.flag)

inspect_sysenter(raw, env) ==
    IF raw.variant = 0
    THEN UnknownRecord(raw, env.flag)
    ELSE EntryRecord(raw, InspectFields(Table[raw.variant].args, raw.vals, env, 1))

\* is_syscall_failed testing for -1 only
is_syscall_failed_minus_one(result_ty, syscall_result) ==
    IF result_ty.shape = "unit" THEN FALSE
    ELSE Cast(syscall_result, WORD_SIZE, TRUE) = -1

\* `(syscall_result as isize) < 0`, or `false` for Unit
is_syscall_failed(result_ty, syscall_result) ==
    IF result_ty.shape = "unit" THEN FALSE
    ELSE Cast(syscall_result, WORD_SIZE, TRUE) < 0

\* A decode whose value for Unit carries the result register
inspect_syscall_result_of_unit(result_ty, r) ==
    IF result_ty.shape = "unit" THEN <<syscall_res_from_regs(r)>>
    ELSE Cast(syscall_res_from_regs(r), result_ty.T.size, result_ty.signed)

\* `syscall_res_from_regs!(regs) as #syscall_result_type`, or `()`
inspect_syscall_result(result_ty, r) ==
    IF result_ty.shape = "unit" THEN <<>>
    ELSE Cast(syscall_res_from_regs(r), result_ty.T.size, result_ty.signed)

\* <Name>RawArgs::inspect_sysexit for the entry e of the record
FailedRecord(raw, e, syscall_result, flag) ==
    Done(Record(raw.variant, raw.number, Some(syscall_result),
                [k \in 1 .. Len(e.modified_args) |-> SyscallFailure], FALSE),
         <<>>, flag)

ExitRecord(raw, syscall_result, d) ==
    Done(Record(raw.variant, raw.number, Some(syscall_result), d.fields, d.panicked),
         d.log, d.flag)

ExitOf(raw, e, syscall_result, env) ==
    IF is_syscall_failed(e.result, syscall_result)
    THEN FailedRecord(raw, e, syscall_result, env.flag)
    ELSE ExitRecord(raw, syscall_result,
                    InspectFields(e.modified_args, raw.vals, env, 1))

\* An exit decode that takes the arguments from the exit registers
raw_args_at_exit_recaptured(raw, r) == RawArgs_from_regs(raw.variant, r)

\* `let raw_args = self;` of <Name>RawArgs::inspect_sysexit: the arguments
\* of the exit decode are those of the record captured at entry.
raw_args_at_exit(raw, r) == raw

\* inspect_sysexit rebuilding an Unknown record from the exit registers
inspect_sysexit_recapture(raw, r, env) ==
    IF raw.variant = 0
    THEN UnknownRecord(UnknownArgs_from_regs(r), env.flag)
    ELSE ExitOf(raw, Table[raw.variant],
                inspect_syscall_result(Table[raw.variant].result, r), env)

\* impl SyscallStopInspect for SyscallRawArgs: inspect_sysexit
inspect_sysexit(raw, r, env) ==
    IF raw.variant = 0
    THEN UnknownRecord(raw, env.flag)
    ELSE ExitOf(raw_args_at_exit(raw, r), Table[raw.variant],
                inspect_syscall_result(Table[raw.variant].result, r), env)

----------------------------------------------------------------------------
(* The tracee and the inputs *)

PageBase(p) == p * PageSize
Ptr(a) == ToNeBytes(a, WORD_SIZE)
Fill(n, b) == [i \in 1 .. n |-> b]

\* An address that is never readable.
WildAddr == MemTop + 1 + WORD_SIZE

\* Where the image keeps its objects.
StrLs == PageBase(1)
StrL == PageBase(1) + 3
StrA1 == PageBase(1) + 6
StrB2 == PageBase(1) + 10
StrTail == PageBase(1) + 14
Argv == PageBase(3) - 2 * WORD_SIZE
Envp == PageBase(3) + WORD_SIZE

\* Page 0 is the null page.  Page 1 holds the strings "ls", "-l", "A=1",
\* "B=2" and a run of non-zero bytes up to the end of the page.  argv
\* straddles pages 2 and 3, envp follows it with a third pointer into
\* unmapped memory, and the rest is data.
ExecImage ==
    Fill(PageSize, 0)
    \o <<1, 2, 0>> \o <<3, 1, 0>> \o <<1, 3, 1, 0>> \o <<2, 3, 2, 0>>
    \o Fill(PageSize - 14, 3)
    \o Fill(PageSize - 2 * WORD_SIZE, 2)
    \o Ptr(StrLs) \o Ptr(StrL) \o Ptr(0)
    \o Ptr(StrA1) \o Ptr(StrB2) \o Ptr(WildAddr) \o Ptr(0)
    \o Fill(MemTop + 1 - (3 * PageSize + 5 * WORD_SIZE), 1)

\* A buffer image: non-zero text with a terminator every 11 bytes.
TextImage == [i \in 1 .. MemTop + 1 |-> IF i % 11 = 0 THEN 0 ELSE 1 + (i % ByteMax)]

Images == {[a \in 0 .. MemTop |-> ExecImage[a + 1]],
           [a \in 0 .. MemTop |-> TextImage[a + 1]]}

UserPages == 1 .. MemPages - 1
PeekErrnos == {"EFAULT", "EIO"}
JunkBytes == {0, ByteMax}

Envs == [flag : {SHOULD_USE_PROCESS_VM_READV}, errno : PeekErrnos, junk : JunkBytes]

ZeroRegs == [nr |-> 0, args |-> <<0, 0, 0, 0, 0, 0>>, res |-> 0]

TypeOK ==
    /\ arch \in Archs
    /\ bytes \in Images
    /\ mapped \subseteq UserPages
    /\ bulk_enabled \in BOOLEAN
    /\ SHOULD_USE_PROCESS_VM_READV \in BOOLEAN

----------------------------------------------------------------------------
(* The decoder: capture at entry, decode at entry, decode at exit *)

TableNumbers ==
    UNION {{Table[i].archs[a] : a \in DOMAIN Table[i].archs} : i \in 1 .. Len(Table)}
UnknownNumbers == {9999, 600, UsizeMax}

\* Six-slot argument files: small integers, addresses of the image, and
\* words whose upper half is set.
ArgFiles ==
    {<<1, 2, 3, 4, 5, 6>>,
     <<StrA1, Argv, Envp, 0, UsizeMax, Pow2(4 * ByteBits) + 7>>}

\* The kernel reports a failure as -errno in the whole result register,
\* with 1 <= errno <= MaxErrno, and everything else is a success value.
MaxErrno == ByteMax
ResultSlots ==
    {0, 5, Pow2(4 * ByteBits - 1) - 1}
    \cup {UsizeMax + 1 - e : e \in 1 .. MaxErrno}

DecoderMappings == {UserPages, UserPages \ {1}, UserPages \ {4}}

InitDecoder ==
    /\ arch \in Archs
    /\ bytes = [a \in 0 .. MemTop |-> ExecImage[a + 1]]
    /\ mapped \in DecoderMappings
    /\ bulk_enabled = TRUE
    /\ SHOULD_USE_PROCESS_VM_READV = TRUE
    /\ regs = ZeroRegs
    /\ raw_args = None
    /\ op = [name |-> "start"]
    /\ out = None
    /\ log = <<>>
    /\ pc = <<>>

\* SyscallRawArgs::get_on_sysenter with a successful register capture.  A
\* behaviour follows one system call from its entry stop to its exit stop:
\* the decoder keeps nothing between calls but the bulk-read flag.
Capture(r, raw) ==
    /\ regs' = r
    /\ raw_args' = Some(raw)
    /\ op' = [name |-> "from_regs"]
    /\ out' = raw
    /\ log' = <<>>
    /\ UNCHANGED <<arch, bytes, mapped, bulk_enabled, SHOULD_USE_PROCESS_VM_READV, pc>>

\* ptrace_getregs returned Err(e) and the caller got Err(returned):
\* nothing is captured.
CaptureFailed(e, returned) ==
    /\ op' = [name |-> "get_on_sysenter_failed", errno |-> e]
    /\ out' = [ok |-> FALSE, errno |-> returned]
    /\ log' = <<>>
    /\ UNCHANGED <<arch, bytes, mapped, bulk_enabled, SHOULD_USE_PROCESS_VM_READV,
                   regs, raw_args, pc>>

\* What ptrace_getregs may return at a stop: Ok(regs) or Err(errno).
GetregsErrnos == {"ESRCH", "EIO"}
GetregsResults ==
    {[ok |-> TRUE, errno |-> "", regs |-> [nr |-> n, args |-> a, res |-> 0]] :
        n \in TableNumbers \cup UnknownNumbers, a \in ArgFiles}
    \cup {[ok |-> FALSE, errno |-> e, regs |-> ZeroRegs] : e \in GetregsErrnos}

\* A get_on_sysenter that reports every failure as EIO
get_on_sysenter_one_errno(g) ==
    IF g.ok
    THEN [ok |-> TRUE, errno |-> "", raw |-> SyscallRawArgs_from_regs(g.regs)]
    ELSE [ok |-> FALSE, errno |-> "EIO", raw |-> <<>>]

\* SyscallRawArgs::get_on_sysenter: `let regs = ptrace_getregs(pid)?;
\* Ok(Self::from_regs(&regs))`, with g what ptrace_getregs returned.
get_on_sysenter(g) ==
    IF g.ok
    THEN [ok |-> TRUE, errno |-> "", raw |-> SyscallRawArgs_from_regs(g.regs)]
    ELSE [ok |-> FALSE, errno |-> g.errno, raw |-> <<>>]

\* pub fn get_raw_args
get_raw_args(g) == get_on_sysenter(g)

Captures(g, r) ==
    IF r.ok THEN Capture(g.regs, r.raw) ELSE CaptureFailed(g.errno, r.errno)

GetOnSysenter ==
    /\ op.name = "start"
    /\ \E g \in GetregsResults : Captures(g, get_raw_args(g))

\* What a decode leaves: the record, the requests and the flag.
Decoded(name, d) ==
    /\ op' = [name |-> name]
    /\ out' = d.rec
    /\ log' = d.log
    /\ SHOULD_USE_PROCESS_VM_READV' = d.flag
    /\ UNCHANGED <<arch, bytes, mapped, bulk_enabled, raw_args, pc>>

InspectSysenter ==
    /\ op.name = "from_regs"
    /\ \E env \in Envs :
          /\ Decoded("inspect_sysenter", inspect_sysenter(raw_args[1], env))
          /\ UNCHANGED regs

\* The registers at the exit stop: the result slot is the kernel's, the
\* other slots are as at entry or clobbered.
ExitSnapshots ==
    {[nr |-> regs.nr, args |-> regs.args, res |-> v] : v \in ResultSlots}
    \cup {[nr |-> 0, args |-> <<0, 0, 0, 0, 0, 0>>, res |-> v] : v \in ResultSlots}

InspectSysexit ==
    /\ op.name \in {"from_regs", "inspect_sysenter"}
    /\ \E r \in ExitSnapshots, env \in Envs :
          /\ Decoded("inspect_sysexit", inspect_sysexit(raw_args[1], r, env))
          /\ regs' = r

NextDecoder == GetOnSysenter \/ InspectSysenter \/ InspectSysexit

SpecDecoder == InitDecoder /\ [][NextDecoder]_vars

----------------------------------------------------------------------------
(* Properties of the decoder *)

AtFromRegs == op.name = "from_regs"
AtSysenter == op.name = "inspect_sysenter"
AtSysexit == op.name = "inspect_sysexit"

\* The raw record captured at the entry stop, and its table entry.
Captured == raw_args[1]
CapturedEntry == Table[Captured.variant]

AllSyscallFailure ==
    /\ Len(out.fields) = Len(CapturedEntry.modified_args)
    /\ \A k \in 1 .. Len(out.fields) : out.fields[k] = SyscallFailure

AtTableSysexit ==
    /\ AtSysexit
    /\ Captured.variant # 0
    /\ CapturedEntry.result.shape # "unit"

InArchTable(n) ==
    \E i \in 1 .. Len(Table) :
        arch \in DOMAIN Table[i].archs /\ Table[i].archs[arch] = n

\* C2: from_regs of a snapshot whose syscall number is not in the
\* architecture's table yields Unknown with the snapshot's number and its
\* six argument slots in positional order.
C2_UnknownPreserved ==
    (AtFromRegs /\ ~InArchTable(AsIsize(regs.nr)))
        => /\ out.variant = 0
           /\ out.number = AsIsize(regs.nr)
           /\ Len(out.vals) = 6
           /\ \A k \in 1 .. 6 : out.vals[k] = regs.args[k]

C2_Witness ==
    /\ AtFromRegs
    /\ regs.nr = 9999
    /\ out.variant = 0
    /\ out.vals[1] # out.vals[6]

\* C3: inspect_sysenter and inspect_sysexit of an Unknown raw record return
\* Unknown with the record's number and six slots, whatever the exit
\* registers are, and perform no remote read.
C3_UnknownPassThrough ==
    ((AtSysenter \/ AtSysexit) /\ Captured.variant = 0)
        => /\ out.variant = 0
           /\ out.number = Captured.number
           /\ out.fields = Captured.vals
           /\ log = <<>>

\* An Unknown record decoded at exit from registers that no longer hold
\* the entry's number and arguments.
C3_Witness ==
    /\ AtSysexit
    /\ Captured.variant = 0
    /\ Captured.number = 9999
    /\ regs.nr # 9999
    /\ regs.args # Captured.vals
    /\ out.fields = Captured.vals

\* C4: for every entry of the table bound to the architecture, from_regs of
\* a snapshot carrying the entry's number yields the record of that entry,
\* whose k-th raw field is slot k converted to the declared raw type.
C4_RoundTrip ==
    AtFromRegs =>
        \A i \in 1 .. Len(Table) :
            (arch \in DOMAIN Table[i].archs
             /\ Table[i].archs[arch] = AsIsize(regs.nr))
                => /\ out.variant = i
                   /\ Len(out.vals) = Len(Table[i].raw)
                   /\ \A k \in 1 .. Len(Table[i].raw) :
                         out.vals[k] = Cast(regs.args[k], Table[i].raw[k].T.size,
                                            Table[i].raw[k].signed)

\* The fields the record of the last decode declares, and a field decoded
\* on its own from the captured raw record.
DeclaredFields ==
    IF AtSysenter THEN CapturedEntry.args ELSE CapturedEntry.modified_args

AnyEnvs == [flag : BOOLEAN, errno : PeekErrnos, junk : JunkBytes]

\* v is what the field a gives when it is decoded on its own.
FieldAlone(v, a, vals) ==
    IF a.ty.shape = "int" THEN v = Cast(vals[a.slot], a.ty.T.size, a.ty.signed)
    ELSE \E env \in AnyEnvs : v = InspectFromPid(a.ty, AsUsize(vals[a.slot]), env).res

ExitFailed ==
    AtSysexit /\ is_syscall_failed(CapturedEntry.result, out.syscall_result[1])

\* C13: an entry or exit decode of a table entry, whatever the tracee's
\* memory, returns a record without panicking; the record has every
\* declared field, and each field is what that field gives when decoded on
\* its own (SyscallFailure in a failed exit), so a read failure in one
\* field leaves the others as they are.
C13_AlwaysARecord ==
    ((AtSysenter \/ AtSysexit) /\ Captured.variant # 0)
        => /\ ~out.panicked
           /\ Len(out.fields) = Len(DeclaredFields)
           /\ \A k \in 1 .. Len(DeclaredFields) :
                 IF ExitFailed THEN out.fields[k] = SyscallFailure
                 ELSE FieldAlone(out.fields[k], DeclaredFields[k], Captured.vals)


\* The last decode was the exit decode of a table entry whose result type
\* is Unit.
AtUnitSysexit ==
    /\ AtSysexit
    /\ Captured.variant # 0
    /\ CapturedEntry.result.shape = "unit"

\* C26: the exit decode of a syscall whose result type is Unit (exit,
\* exit_group) gives the unit value as syscall_result and decodes the
\* declared fields, none of them SyscallFailure, whatever the exit
\* registers hold: with any other result slot the record is the same.
C26_UnitNeverFails ==
    AtUnitSysexit
        => /\ out.syscall_result = Some(<<>>)
           /\ ~out.panicked
           /\ Len(out.fields) = Len(CapturedEntry.modified_args)
           /\ \A k \in 1 .. Len(out.fields) : out.fields[k] # SyscallFailure
           /\ \A v \in ResultSlots : \E env \in AnyEnvs :
                 inspect_sysexit(Captured, [regs EXCEPT !.res = v], env).rec = out

\* exit_group was decoded at an exit stop whose result slot is negative.
C26_Witness ==
    /\ AtUnitSysexit
    /\ CapturedEntry.name = "exit_group"
    /\ AsIsize(regs.res) < 0
    /\ out.syscall_result = Some(<<>>)


\* Exit snapshots with the result slot of the last exit stop and other
\* syscall-number and argument slots.
SnapshotsWithResult(v) ==
    {[nr |-> n, args |-> a, res |-> v] :
        n \in {0, regs.nr, 9999},
        a \in ArgFiles \cup {<<0, 0, 0, 0, 0, 0>>, regs.args}}

\* C27: the exit record depends on the exit snapshot only through its
\* result slot: decoding the same raw record against the same tracee with
\* any snapshot that has the same result slot, whatever its syscall-number
\* and argument slots, gives the same record and the same remote reads.
C27_OnlyResultSlot ==
    AtSysexit
        => \E env \in AnyEnvs : \A r \in SnapshotsWithResult(regs.res) :
              /\ inspect_sysexit(Captured, r, env).rec = out
              /\ inspect_sysexit(Captured, r, env).log = log

\* The exit decode of a table entry read the tracee through an address of
\* the raw record while the exit snapshot's argument slots were clobbered.
C27_Witness ==
    /\ AtSysexit
    /\ Captured.variant # 0
    /\ regs.args = <<0, 0, 0, 0, 0, 0>>
    /\ Captured.vals # <<>>
    /\ log # <<>>
    /\ \E k \in 1 .. Len(out.fields) :
          /\ CapturedEntry.modified_args[k].ty.shape # "int"
          /\ out.fields[k].tag = "Ok"


\* The entries compiled for the target that declare the number n.
Declaring(n) == {i \in 1 .. Len(Table) : HasArch(i) /\ SYS(i) = n}

\* C29: on each architecture the numbers of the table entries bound to it
\* are pairwise distinct, so that from_regs of a snapshot whose number an
\* entry declares yields that entry's variant: no entry is unreachable and
\* no number is decoded as another system call than one that declares it.
C29_NumbersDistinct ==
    AtFromRegs =>
        \A i \in Declaring(AsIsize(syscall_no_from_regs(regs))) :
            /\ Captured.variant = i
            /\ Declaring(SYS(i)) = {i}

AtCaptureFailed == op.name = "get_on_sysenter_failed"

\* C14: when ptrace_getregs fails with errno e, get_raw_args returns Err(e)
\* and no raw record exists; when it returns a raw record, the register
\* capture had succeeded and the record is from_regs of exactly the
\* snapshot captured.
C14_CaptureFailure ==
    /\ AtCaptureFailed
          => /\ ~out.ok
             /\ out.errno = op.errno
             /\ raw_args = None
    /\ AtFromRegs
          => /\ raw_args = Some(out)
             /\ out = SyscallRawArgs_from_regs(regs)

\* The capture failed with ESRCH and that is what the caller got.
C14_Witness ==
    /\ AtCaptureFailed
    /\ out = [ok |-> FALSE, errno |-> "ESRCH"]
    /\ raw_args = None

\* A raw, entry or exit record of the captured syscall has been returned.
RecordReturned ==
    \/ AtFromRegs
    \/ (AtSysenter \/ AtSysexit) /\ ~out.panicked

----------------------------------------------------------------------------
(* The typed readers called on their own *)

read_cstring(address, env) == read_generic_string(address, env)
read_pathbuf(address, env) == read_generic_string(address, env)

\* impl InspectCountedFromPid for InspectResult<Option<Vec<u64>>> and
\* InspectResult<Option<Vec<u32>>>
inspect_option_counted(T, address, count, env) ==
    inspect_option(address, inspect_counted(T, address, count, env), env)

MaxCount == 2

Addresses == 0 .. MemTop \cup {WildAddr}
FixedSizes == {1, 4, 16}
ElementTypes == {FixedT(4), StringT}
PairTypes == {FixedT(4), FixedT(16)}
OptionTypes ==
    {OptT(ItemT(FixedT(16))), OptT(ItemT(StringT)), OptT(VecT(StringT)),
     OptT(Array2T(FixedT(16)))}
OptionCountedTypes == {FixedT(8), FixedT(4)}

ReaderMappings ==
    {UserPages, UserPages \ {1}, UserPages \ {2}, UserPages \ {2, 3}}

\* The bulk flag starts set and is cleared by a failed bulk read, so a call
\* may find it either way; where the kernel refuses bulk reads the flag may
\* already be clear.
InitReader ==
    /\ arch = "x86_64"
    /\ bytes \in Images
    /\ mapped \in ReaderMappings
    /\ bulk_enabled \in BOOLEAN
    /\ SHOULD_USE_PROCESS_VM_READV \in BOOLEAN
    /\ bulk_enabled => SHOULD_USE_PROCESS_VM_READV
    /\ regs = ZeroRegs
    /\ raw_args = None
    /\ op = [name |-> "start"]
    /\ out = None
    /\ log = <<>>
    /\ pc = <<>>

\* One call of a reader: what was asked, what came back, which kernel
\* requests were issued, and the bulk flag as the call left it.
Called(name, a, T, count, env, r) ==
    /\ op' = [name |-> name, address |-> a, T |-> T, count |-> count,
              errno |-> env.errno, flag |-> env.flag]
    /\ out' = r.res
    /\ log' = r.log
    /\ SHOULD_USE_PROCESS_VM_READV' = r.flag
    /\ UNCHANGED <<arch, bytes, mapped, bulk_enabled, regs, raw_args, pc>>

ReadFixed ==
    /\ op.name = "start"
    /\ \E a \in Addresses, size \in FixedSizes, env \in Envs :
        Called("inspect_fixed", a, FixedT(size), 1, env,
               inspect_fixed(size, a, env))

ReadCString ==
    /\ op.name = "start"
    /\ \E a \in Addresses, env \in Envs :
        Called("read_cstring", a, StringT, 1, env, read_cstring(a, env))

ReadPathBuf ==
    /\ op.name = "start"
    /\ \E a \in Addresses, env \in Envs :
        Called("read_pathbuf", a, StringT, 1, env, read_pathbuf(a, env))

ReadNullEnded ==
    /\ op.name = "start"
    /\ \E a \in Addresses, T \in {FixedT(1), StringT}, env \in Envs :
        Called("read_null_ended_array", a, T, 0, env,
               read_null_ended_array(T, a, env))

ReadCounted ==
    /\ op.name = "start"
    /\ \E a \in Addresses, T \in ElementTypes, count \in 0 .. MaxCount,
          env \in Envs :
        Called("inspect_counted", a, T, count, env,
               inspect_counted(T, a, count, env))

ReadArray2 ==
    /\ op.name = "start"
    /\ \E a \in Addresses, T \in PairTypes, env \in Envs :
        Called("inspect_array2", a, T, 2, env, inspect_array2(T, a, env))

ReadOption ==
    /\ op.name = "start"
    /\ \E a \in Addresses, ty \in OptionTypes, env \in Envs :
        Called("inspect_option", a, ty, 0, env, InspectFromPid(ty, a, env))

ReadOptionCounted ==
    /\ op.name = "start"
    /\ \E a \in Addresses, T \in OptionCountedTypes, count \in 0 .. MaxCount,
          env \in Envs :
        Called("inspect_option_counted", a, T, count, env,
               inspect_option_counted(T, a, count, env))

NextReader ==
    \/ ReadFixed
    \/ ReadCString
    \/ ReadPathBuf
    \/ ReadNullEnded
    \/ ReadCounted
    \/ ReadArray2
    \/ ReadOption
    \/ ReadOptionCounted

SpecReader == InitReader /\ [][NextReader]_vars

----------------------------------------------------------------------------
(* Properties of the typed readers *)

\* The bytes at a .. a + n - 1 of the tracee.
BytesAt(a, n) == [i \in 1 .. n |-> bytes[a + i - 1]]
AllReadable(a, n) == \A i \in 0 .. n - 1 : Readable(a + i)

ResultCounted == {"read", "readlink", "readlinkat", "recvfrom"}

\* The buf field of an exit record of one of the result-counted syscalls,
\* and the address its raw slot holds.
BufIndex == CHOOSE k \in 1 .. Len(CapturedEntry.modified_args) :
                CapturedEntry.modified_args[k].name = "buf"
BufAddress == Captured.vals[CapturedEntry.modified_args[BufIndex].slot]

\* C5: after a successful exit decode of read, readlink, readlinkat or
\* recvfrom with result n, whose buffer holds n readable bytes, the buf field
\* is Ok of exactly the first n bytes at the buffer address.
C5_ResultCounted ==
    (/\ AtSysexit
     /\ Captured.variant # 0
     /\ CapturedEntry.name \in ResultCounted
     /\ out.syscall_result[1] >= 0
     /\ AllReadable(BufAddress, out.syscall_result[1]))
        => out.fields[BufIndex] =
              Ok([i \in 1 .. out.syscall_result[1] |-> <<bytes[BufAddress + i - 1]>>])

\* The call a reader state records, with the environment it ran in.
EnvOf(junk) == [flag |-> op.flag, errno |-> op.errno, junk |-> junk]
AtReader(names) == op.name \in names

\* The number of readable non-zero bytes from a up to the first byte that
\* is not readable, or -1 when a zero byte or the end of the search comes
\* first.
RECURSIVE ReadableRun(_, _)
ReadableRun(a, k) ==
    IF ~Readable(a + k) THEN k
    ELSE IF bytes[a + k] = 0 THEN -1
    ELSE ReadableRun(a, k + 1)


\* C24: a fixed-size read of size_of::<T>() bytes returns Ok(v) only when
\* all bytes of its range were readable, and v is then exactly the tracee's
\* bytes there; when fewer bytes than that could be read it returns
\* ReadFailure with no partial value.
C24_FixedFullyRead ==
    AtReader({"inspect_fixed"})
        => /\ out.tag = "Ok"
                => /\ AllReadable(op.address, op.T.size)
                   /\ out.val = Some(BytesAt(op.address, op.T.size))
           /\ ~AllReadable(op.address, op.T.size)
                => /\ out.tag = "ReadFailure"
                   /\ out.partial = None

\* C6: read_cstring and read_pathbuf at an address a, aligned or not, where
\* k >= 0 bytes are readable and non-zero and the byte after them is not
\* readable, return ReadFailure whose partial is exactly those k bytes.
C6_StringPartial ==
    (AtReader({"read_cstring", "read_pathbuf"}) /\ ReadableRun(op.address, 0) >= 0)
        => /\ out.tag = "ReadFailure"
           /\ out.partial = Some(BytesAt(op.address, ReadableRun(op.address, 0)))

\* Slot i of a pointer array at the called address, and the element it
\* points to as the element reader returns it.
SlotAddress(i) == op.address + i * WORD_SIZE
SlotReadable(i) == PeekOk(SlotAddress(i))
SlotPointer(i) == FromNeBytes(PeekWord(SlotAddress(i)))
Pointee(i, junk) == inspect_item(op.T, SlotPointer(i), EnvOf(junk)).res
PointeeRead(i, junk) ==
    SlotReadable(i) /\ SlotPointer(i) # 0 /\ Pointee(i, junk).tag = "Ok"
Pointees(n, junk) == [i \in 1 .. n |-> Pointee(i - 1, junk).val[1]]

MaxSlots == (MemTop + 1) \div WORD_SIZE

\* C7: read_null_ended_array stops at the first slot j that cannot be read,
\* is null, or whose element cannot be read; a null slot gives Ok of the j
\* elements before it, and a failure gives ReadFailure whose partial is
\* exactly those j elements in order.
C7_NullEndedPartial ==
    AtReader({"read_null_ended_array"}) =>
        \E junk \in JunkBytes, j \in 0 .. MaxSlots :
            /\ \A i \in 0 .. j - 1 : PointeeRead(i, junk)
            /\ ~PointeeRead(j, junk)
            /\ IF SlotReadable(j) /\ SlotPointer(j) = 0
               THEN out = Ok(Pointees(j, junk))
               ELSE /\ out.tag = "ReadFailure"
                    /\ out.partial = Some(Pointees(j, junk))

\* Element i of a counted sequence or pair at the called address.
Element(i, junk) ==
    inspect_item(op.T, op.address + i * op.T.size, EnvOf(junk)).res
Elements(n, junk) == [i \in 1 .. n |-> Element(i - 1, junk).val[1]]

\* C8: inspect_counted, when elements 0 .. i-1 are read and element i < count
\* is not, returns ReadFailure whose partial is exactly the i elements
\* read, whatever the element type.
C8_CountedPartial ==
    AtReader({"inspect_counted"}) =>
        \A i \in 0 .. op.count - 1 :
            \E junk \in JunkBytes :
                ((\A k \in 0 .. i - 1 : Element(k, junk).tag = "Ok")
                 /\ Element(i, junk).tag # "Ok")
                    => /\ out.tag = "ReadFailure"
                       /\ out.partial = Some(Elements(i, junk))

\* The two reads of a pair as inspect_array2 issues them: the second runs
\* with the bulk flag as the first left it.
First(junk) == inspect_item(op.T, op.address, EnvOf(junk))
Second(junk) ==
    inspect_item(op.T, op.address + op.T.size,
                 [EnvOf(junk) EXCEPT !.flag = First(junk).flag])

\* C9: inspect_array2, when element 0 is read and element 1 at address +
\* size_of::<T>() is not, returns a failure whose partial has element 0 as
\* its first entry.
C9_PairPartial ==
    AtReader({"inspect_array2"}) =>
        \E junk \in JunkBytes :
            (First(junk).res.tag = "Ok" /\ Second(junk).res.tag # "Ok")
                => /\ out.tag = "ReadFailure"
                   /\ out.partial # None
                   /\ Len(out.partial[1]) >= 1
                   /\ out.partial[1][1] = First(junk).res.val[1]

\* The reader of the shape inside an Option, called on its own.
Inner(junk) ==
    IF op.name = "inspect_option_counted"
    THEN inspect_counted(op.T, op.address, op.count, EnvOf(junk))
    ELSE CASE op.T.shape = "item" -> inspect_item(op.T.T, op.address, EnvOf(junk))
           [] op.T.shape = "vec" ->
                 read_null_ended_array(op.T.T, op.address, EnvOf(junk))
           [] op.T.shape = "array2" -> inspect_array2(op.T.T, op.address, EnvOf(junk))

\* An inner outcome wrapped as present: the value in Some; a partial in Some
\* too, except for a pair's partial, which is a plain sequence of elements.
Present(r) ==
    IF r.tag = "Ok" THEN Ok(Some(r.val[1]))
    ELSE IF r.partial = None \/ (op.name = "inspect_option" /\ op.T.shape = "array2")
    THEN r
    ELSE [r EXCEPT !.partial = Some(Some(r.partial[1]))]

AtOption == AtReader({"inspect_option", "inspect_option_counted"})

\* C10: an Option-typed shape at a null address decodes to Ok(None) without
\* a remote read; at any other address it decodes to what the inner shape's
\* reader returns there, wrapped as present, with the same requests.
C10_OptionNull ==
    AtOption =>
        IF op.address = 0
        THEN out = Ok(None) /\ log = <<>>
        ELSE \E junk \in JunkBytes :
                /\ out = Present(Inner(junk).res)
                /\ log = Inner(junk).log

\* An optional string array called with a null address.
C10_Witness ==
    /\ AtOption
    /\ op.address = 0
    /\ out = Ok(None)
    /\ op.name = "inspect_option"
    /\ op.T.shape = "vec"


----------------------------------------------------------------------------
(* read_remote_memory called by several threads of the tracer *)

MaxThreads == 2
Threads == 1 .. MaxThreads

\* A tracee large enough for a request that needs more than IOV_MAX remote
\* iovecs.  Page 0 is the null page.
BulkPages == IOV_MAX + 2
BulkImage == [a \in 0 .. BulkPages * PageSize - 1 |-> 1 + (a % ByteMax)]
MemoryMappings == {1 .. BulkPages - 1, (1 .. BulkPages - 1) \ {2}}

\* The requests: inside one word, across a word boundary from an unaligned
\* address, two words from an unaligned address, across a page boundary,
\* more than IOV_MAX pages, and ranges that end beyond the address space.
Requests ==
    {[address |-> PageSize + 2, len |-> 4],
     [address |-> PageSize + 6, len |-> 4],
     [address |-> PageSize + 1, len |-> 2 * WORD_SIZE],
     [address |-> 2 * PageSize - WORD_SIZE, len |-> 2 * WORD_SIZE + 4],
     [address |-> 2 * PageSize, len |-> 2 * WORD_SIZE],
     [address |-> PageSize + WORD_SIZE, len |-> IOV_MAX * PageSize + 4],
     [address |-> UsizeMax, len |-> 2 * WORD_SIZE],
     [address |-> UsizeMax - 4, len |-> 2 * WORD_SIZE]}

\* AtomicBool::new(true)
FlagAtStart == TRUE

\* A store that flips the flag instead of clearing it
StoredOnError_toggle(flag) == ~flag

\* The value map_err's closure stores, whatever the flag holds.
StoredOnError(flag) == FALSE

\* A branch that does not look at the flag
ReadPath_ignoring_flag(len, flag) ==
    IF len < WORD_SIZE * 2 THEN "peek" ELSE "bulk"

\* The branch of read_remote_memory a request takes, given the flag it
\* finds.
ReadPath(len, flag) ==
    IF len < WORD_SIZE * 2 THEN "peek"
    ELSE IF flag THEN "bulk"
    ELSE "peek"

Idle == [at |-> "idle"]

InitMemory ==
    /\ arch = "x86_64"
    /\ bytes = BulkImage
    /\ mapped \in MemoryMappings
    /\ bulk_enabled \in BOOLEAN
    /\ SHOULD_USE_PROCESS_VM_READV = FlagAtStart
    /\ regs = ZeroRegs
    /\ raw_args = None
    /\ op = [name |-> "start"]
    /\ out = None
    /\ log = <<>>
    /\ pc = [t \in Threads |-> Idle]

\* A thread enters read_remote_memory: the length test and the load of the
\* flag.
Request(t) ==
    /\ pc[t].at = "idle"
    /\ \E q \in Requests :
          pc' = [pc EXCEPT ![t] =
                    [at |-> ReadPath(q.len, SHOULD_USE_PROCESS_VM_READV),
                     address |-> q.address, len |-> q.len,
                     flag |-> SHOULD_USE_PROCESS_VM_READV, bulk |-> None]]
    /\ UNCHANGED <<arch, bytes, mapped, bulk_enabled, SHOULD_USE_PROCESS_VM_READV,
                   regs, raw_args, op, out, log>>

\* The call returns r to its caller.
Return(t, r, bulk) ==
    /\ op' = [name |-> "read_remote_memory", thread |-> t,
              address |-> pc[t].address, len |-> pc[t].len,
              flag |-> pc[t].flag, bulk |-> bulk]
    /\ out' = r
    /\ log' = r.log
    /\ pc' = [pc EXCEPT ![t] = Idle]
    /\ UNCHANGED <<arch, bytes, mapped, bulk_enabled, SHOULD_USE_PROCESS_VM_READV,
                   regs, raw_args>>

\* read_by_process_vm_readv returned result: Ok leaves the call, Err goes
\* on to map_err.
BulkDone(t, result) ==
    IF result.ok
    THEN Return(t, WithFlag(result, SHOULD_USE_PROCESS_VM_READV), Some(result))
    ELSE /\ pc' = [pc EXCEPT ![t].at = "store", ![t].bulk = Some(result)]
         /\ UNCHANGED <<arch, bytes, mapped, bulk_enabled,
                        SHOULD_USE_PROCESS_VM_READV, regs, raw_args, op, out, log>>

BulkRead(t) ==
    /\ pc[t].at = "bulk"
    /\ BulkDone(t, read_by_process_vm_readv(pc[t].address, pc[t].len))

\* SHOULD_USE_PROCESS_VM_READV.store(false, Ordering::SeqCst)
StoreFlag(t) ==
    /\ pc[t].at = "store"
    /\ SHOULD_USE_PROCESS_VM_READV' = StoredOnError(SHOULD_USE_PROCESS_VM_READV)
    /\ pc' = [pc EXCEPT ![t].at = "peek"]
    /\ UNCHANGED <<arch, bytes, mapped, bulk_enabled, regs, raw_args, op, out, log>>

\* read_by_ptrace_peek returned p, either as the whole call or inside
\* or_else.
PeekDone(t, p) ==
    IF pc[t].bulk = None
    THEN Return(t, WithFlag(p, SHOULD_USE_PROCESS_VM_READV), None)
    ELSE Return(t, Fallback(pc[t].bulk[1], p), pc[t].bulk)

PeekRead(t) ==
    /\ pc[t].at = "peek"
    /\ \E e \in PeekErrnos, junk \in JunkBytes :
          PeekDone(t, read_by_ptrace_peek(pc[t].address, pc[t].len, e, junk))

NextMemory ==
    \E t \in Threads : Request(t) \/ BulkRead(t) \/ StoreFlag(t) \/ PeekRead(t)

SpecMemory == InitMemory /\ [][NextMemory]_vars


----------------------------------------------------------------------------
(* Properties of read_remote_memory *)

AtReturn == op.name = "read_remote_memory"

\* The range of the returned request can be read through both facilities.
BothReadable ==
    /\ bulk_enabled
    /\ op.address + op.len <= UsizeMax
    /\ AllReadable(op.address, op.len)

\* C11: a request whose whole range is readable through both facilities,
\* from an aligned or an unaligned address, returns Ok(len) with the
\* tracee's bytes addr .. addr + len - 1 in the destination, whichever of
\* the word path and the bulk path served it.
C11_PathsAgree ==
    (AtReturn /\ BothReadable)
        => /\ out.ok
           /\ out.n = op.len
           /\ out.buf = BytesAt(op.address, op.len)


\* C12: the flag starts enabled, and every step of every thread, in every
\* interleaving of their requests, either leaves it as it is or takes it
\* from enabled to disabled: once disabled it is never enabled again.
C12_OneWayLatch ==
    /\ SHOULD_USE_PROCESS_VM_READV = TRUE
    /\ [][SHOULD_USE_PROCESS_VM_READV' => SHOULD_USE_PROCESS_VM_READV]_vars

\* A request that started with the flag disabled has returned, while
\* another thread is about to store to the flag a second time.
C12_Witness ==
    /\ AtReturn
    /\ ~op.flag
    /\ ~SHOULD_USE_PROCESS_VM_READV
    /\ \E t \in Threads : pc[t].at = "store"


\* A thread is in the bulk part of its request: in the bulk read, in
\* map_err, or in the word-path retry after them.
InBulkPart(t) ==
    \/ pc[t].at \in {"bulk", "store"}
    \/ pc[t].at = "peek" /\ pc[t].bulk # None

\* May the request with this length, started with this flag, use the bulk
\* facility?
BulkAllowed(len, flag) == len >= 2 * WORD_SIZE /\ flag

OnlyPeeks(lg) == \A i \in 1 .. Len(lg) : lg[i].call = "peek"

\* C17: a request reaches the bulk facility only when its length is at
\* least two words and it found the flag enabled; a shorter request, and any
\* request started with the flag disabled, issues word reads only, and no
\* step of such a request changes the flag.
C17_BulkOnlyWhenAllowed ==
    /\ [](\A t \in Threads :
             (pc[t].at # "idle" /\ InBulkPart(t))
                 => BulkAllowed(pc[t].len, pc[t].flag))
    /\ []((AtReturn /\ ~BulkAllowed(op.len, op.flag))
             => op.bulk = None /\ OnlyPeeks(log))
    /\ [][SHOULD_USE_PROCESS_VM_READV' # SHOULD_USE_PROCESS_VM_READV
             => \E t \in Threads :
                   /\ pc[t].at = "store"
                   /\ pc'[t].at # "store"
                   /\ BulkAllowed(pc[t].len, pc[t].flag)]_vars

\* A request of two words or more that started with the flag disabled has
\* returned Ok through word reads alone, with the bulk facility permitted.
C17_Witness ==
    /\ AtReturn
    /\ op.len >= 2 * WORD_SIZE
    /\ ~op.flag
    /\ bulk_enabled
    /\ out.ok
    /\ log # <<>>
    /\ OnlyPeeks(log)


\* The bulk attempt of the returned request failed.
BulkFailed == op.bulk # None /\ ~op.bulk[1].ok

\* r is what the word path p returned, count or errno, with p's bytes in
\* the destination.
SameOutcome(r, p) ==
    /\ r.ok = p.ok
    /\ r.n = p.n
    /\ r.errno = p.errno
    /\ r.buf = p.buf

\* C18: when the bulk attempt of a request failed, the call then ran the
\* word path from the request's own address and length, and what the call
\* returned is what the word path returned.
C18_RetryByWords ==
    (AtReturn /\ BulkFailed)
        => \E e \in PeekErrnos, junk \in JunkBytes :
              /\ SameOutcome(out, read_by_ptrace_peek(op.address, op.len, e, junk))
              /\ log = op.bulk[1].log
                       \o read_by_ptrace_peek(op.address, op.len, e, junk).log

\* The bulk read was refused with EPERM and the retry failed with EIO,
\* which is what the call returned.
C18_Witness ==
    /\ AtReturn
    /\ BulkFailed
    /\ op.bulk[1].errno = "EPERM"
    /\ ~out.ok
    /\ out.errno = "EIO"


\* The bulk read that returned r failed in the kernel: the last request it
\* issued was refused.
KernelRefused(r) ==
    /\ r.log # <<>>
    /\ process_vm_readv(r.log[Len(r.log)].iovs).ret = -1

\* C19: the flag is changed only by a request whose bulk read was refused
\* by the kernel; a request that the reader rejected by its own checks of
\* the remote pointer, before a kernel call, leaves the flag as it is.
C19_OnlyKernelFailures ==
    [][SHOULD_USE_PROCESS_VM_READV' # SHOULD_USE_PROCESS_VM_READV
          => \E t \in Threads :
                /\ pc[t].at = "store"
                /\ pc'[t].at # "store"
                /\ KernelRefused(pc[t].bulk[1])]_vars


\* The remote iovecs of the kernel calls in lg, in the order they were
\* passed.
RECURSIVE AllIovs(_)
AllIovs(lg) ==
    IF lg = <<>> THEN <<>> ELSE Head(lg).iovs \o AllIovs(Tail(lg))

WithinOnePage(v) ==
    /\ v.len >= 1
    /\ v.base \div PageSize = (v.base + v.len - 1) \div PageSize

\* vs starts at addr and each iovec starts where the one before it ended.
Contiguous(vs, addr) ==
    \A i \in 1 .. Len(vs) :
        vs[i].base = IF i = 1 THEN addr ELSE vs[i - 1].base + vs[i - 1].len

\* The calls of a bulk read of len bytes at addr that returned r, where vs
\* is all their iovecs: pages are respected, no call carries more than
\* IOV_MAX iovecs, the iovecs follow one another from addr without a gap or
\* an overlap, they stay inside the request, and they end where the request
\* ends when the read ran to its end.
BulkCalls(addr, len, r, vs) ==
    /\ \A i \in 1 .. Len(r.log) :
          /\ r.log[i].call = "readv"
          /\ Len(r.log[i].iovs) \in 1 .. IOV_MAX
    /\ \A i \in 1 .. Len(vs) : WithinOnePage(vs[i])
    /\ Contiguous(vs, addr)
    /\ vs # <<>> => vs[Len(vs)].base + vs[Len(vs)].len <= addr + len
    /\ r.ok => /\ vs # <<>>
               /\ vs[Len(vs)].base + vs[Len(vs)].len = addr + len

\* C20: for every bulk read, whether still in progress in a thread or
\* returned, every remote iovec lies within one page, the iovecs are
\* contiguous from the request's address, no call passes more than IOV_MAX
\* of them, and over all calls they cover the request exactly once.
C20_IovecsSplitAtPages ==
    /\ \A t \in Threads :
          (pc[t].at # "idle" /\ pc[t].bulk # None)
              => BulkCalls(pc[t].address, pc[t].len, pc[t].bulk[1],
                           AllIovs(pc[t].bulk[1].log))
    /\ (AtReturn /\ op.bulk # None)
          => BulkCalls(op.address, op.len, op.bulk[1], AllIovs(op.bulk[1].log))

\* A request of more than IOV_MAX pages from an address inside a page was
\* read in two calls, the first with IOV_MAX iovecs.
C20_Witness ==
    /\ AtReturn
    /\ op.bulk # None
    /\ op.bulk[1].ok
    /\ op.address % PageSize # 0
    /\ Len(op.bulk[1].log) = 2
    /\ Len(op.bulk[1].log[1].iovs) = IOV_MAX
    /\ out.n = op.len


----------------------------------------------------------------------------
(* The tracer loop of examples/rstrace.rs *)

\* The system calls the tracee makes: read, write, execve and one that is
\* not in the table.
TracerNumbers == {0, 1, 59, 9999}
TracerGetregs ==
    {g \in GetregsResults : g.ok => g.regs.nr \in TracerNumbers}

InitTracer ==
    /\ arch = "x86_64"
    /\ bytes = [a \in 0 .. MemTop |-> ExecImage[a + 1]]
    /\ mapped = UserPages
    /\ bulk_enabled = TRUE
    /\ SHOULD_USE_PROCESS_VM_READV = TRUE
    /\ regs = ZeroRegs
    /\ raw_args = None
    /\ op = [name |-> "start", raw |-> None, running |-> TRUE]
    /\ out = None
    /\ log = <<>>
    /\ pc = <<>>

\* An arm of the match that leaves `raw_args` alone; running is whether
\* the loop goes on after it.
Arm(name, running) ==
    /\ op.running
    /\ op' = [name |-> name, raw |-> None, running |-> running]
    /\ UNCHANGED <<arch, bytes, mapped, bulk_enabled, SHOULD_USE_PROCESS_VM_READV,
                   regs, raw_args, out, log, pc>>

\* WaitStatus::Stopped: the signal is delivered with ptrace_syscall, whose
\* error other than ESRCH ends main.
WaitStopped == \E resumed \in BOOLEAN : Arm("stopped", resumed)

\* WaitStatus::PtraceEvent
WaitPtraceEvent == \E resumed \in BOOLEAN : Arm("event", resumed)

\* WaitStatus::Exited and WaitStatus::Signaled break out of the loop.
WaitExited == Arm("exited", FALSE)
WaitSignaled == Arm("signaled", FALSE)

\* `_ => {}`
WaitOther == Arm("other", TRUE)

\* A loop that kept the raw arguments after the exit was decoded.
RetainedAfterExit_kept(raw) == Some(raw)

\* `raw_args = None;` at the end of the syscall-exit-stop branch
RetainedAfterExit(raw) == None

\* The stop was decoded: d is the decode, retained the new `raw_args`.
Stop(name, raw, r, d, retained, resumed) ==
    /\ op' = [name |-> name, raw |-> Some(raw), running |-> resumed]
    /\ regs' = r
    /\ raw_args' = retained
    /\ out' = d.rec
    /\ log' = d.log
    /\ SHOULD_USE_PROCESS_VM_READV' = d.flag
    /\ UNCHANGED <<arch, bytes, mapped, bulk_enabled, pc>>

\* The syscall-exit-stop branch, taken with `Some(raw) = raw_args`.
SyscallExit(raw) ==
    \/ \E e \in GetregsErrnos : Arm("getregs_failed", FALSE)
    \/ \E r \in ExitSnapshots, env \in Envs, resumed \in BOOLEAN :
          Stop("syscall_exit", raw, r, inspect_sysexit(raw, r, env),
               RetainedAfterExit(raw), resumed)

\* The syscall-enter-stop branch; c is what get_raw_args returned.
Entered(g, c) ==
    IF ~c.ok THEN Arm("get_raw_args_failed", FALSE)
    ELSE \E env \in Envs, resumed \in BOOLEAN :
            Stop("syscall_enter", c.raw, g.regs, inspect_sysenter(c.raw, env),
                 Some(c.raw), resumed)

SyscallEnter == \E g \in TracerGetregs : Entered(g, get_raw_args(g))

\* WaitStatus::PtraceSyscall
WaitPtraceSyscall ==
    /\ op.running
    /\ IF raw_args # None THEN SyscallExit(raw_args[1]) ELSE SyscallEnter

NextTracer ==
    \/ WaitStopped
    \/ WaitExited
    \/ WaitSignaled
    \/ WaitPtraceEvent
    \/ WaitPtraceSyscall
    \/ WaitOther

SpecTracer == InitTracer /\ [][NextTracer]_vars


----------------------------------------------------------------------------
(* Properties of the tracer loop *)

\* The step decodes a syscall-exit-stop.
ExitDecoded == op'.name = "syscall_exit" /\ op' # op

\* The step decodes a syscall-enter-stop.
EntryDecoded == op'.name = "syscall_enter" /\ op' # op

\* C16: in the rstrace loop, over any sequence of wait statuses,
\* inspect_sysexit is called only while `raw_args` holds the raw arguments
\* captured at the preceding syscall-enter-stop and is called with exactly
\* them, after which `raw_args` is None; an entry is captured only while
\* `raw_args` is None and leaves the captured raw arguments in it; no other
\* stop changes `raw_args`.
C16_EntryExitAlternate ==
    /\ raw_args = None
    /\ [][/\ ExitDecoded =>
               /\ raw_args # None
               /\ op'.raw = raw_args
               /\ raw_args' = None
               /\ \E env \in Envs :
                     out' = inspect_sysexit(raw_args[1], regs', env).rec
          /\ EntryDecoded =>
               /\ raw_args = None
               /\ raw_args' = op'.raw
               /\ raw_args' # None
               /\ raw_args'[1] = SyscallRawArgs_from_regs(regs')
          /\ raw_args' # raw_args => ExitDecoded \/ EntryDecoded]_vars

\* An exit of execve was decoded with the raw arguments retained from its
\* entry, the registers at the exit no longer holding its number, and
\* `raw_args` is None again.
C16_Witness ==
    /\ op.name = "syscall_exit"
    /\ raw_args = None
    /\ op.raw # None
    /\ op.raw[1].number = 59
    /\ out.number = 59
    /\ regs.nr # 59


----------------------------------------------------------------------------
(* The two paths of read_remote_memory, one kernel call at a time *)

\* The requests the paths are called with on their own: those of Requests,
\* two from unaligned addresses that leave a rest after the whole words, one
\* from the null page, and one of more than IOV_MAX pages that ends beyond
\* the address space.
LoopRequests ==
    Requests
    \cup {[address |-> 3, len |-> 2 * WORD_SIZE + 4],
          [address |-> PageSize + 3, len |-> 2 * WORD_SIZE + 5],
          [address |-> PageSize + WORD_SIZE + 4, len |-> 4 * WORD_SIZE + 1],
          [address |-> UsizeMax - IOV_MAX * PageSize - 4,
           len |-> IOV_MAX * PageSize + 8]}

\* The tracee's address space holds n bytes at a.
InImage(a, n) == \A i \in 0 .. n - 1 : (a + i) \in DOMAIN bytes

\* What one ptrace(PTRACE_PEEKDATA) at a may return while the other threads
\* of the tracee change its mappings or the tracee goes away: the word, or
\* a failure.
PeekOutcomes(a) ==
    {[ok |-> FALSE, errno |-> e, word |-> <<>>] : e \in PeekErrnos}
    \cup (IF InImage(a, WORD_SIZE)
          THEN {[ok |-> TRUE, errno |-> "", word |-> PeekWord(a)]}
          ELSE {})

ReadvErrnos == {"EFAULT", "EPERM", "ESRCH"}

\* What one process_vm_readv may return: -1 with an errno, whatever the
\* request,
ReadvFailures ==
    {[ret |-> -1, errno |-> e, data |-> <<>>] : e \in ReadvErrnos}

\* or the bytes of the iovecs of riovs before the one it stopped at.
ReadvTransfers(riovs) ==
    {ReadvReturn(IovBytes(SubSeq(riovs, 1, j))) :
        j \in {i \in 1 .. Len(riovs) :
                 \A m \in 1 .. i : InImage(riovs[m].base, riovs[m].len)}}

\* The locals of a path: `remote_addr` or `cur`, `len`, `total_read`, the
\* bytes stored into dest, the passes the `for` loop has left, and `riovs`
\* up to riov_used.
At(at, cur, len, total_read, dest, k, riovs) ==
    [at |-> at, cur |-> cur, len |-> len, total_read |-> total_read,
     dest |-> dest, k |-> k, riovs |-> riovs]

InitLoops ==
    /\ arch = "x86_64"
    /\ bytes = BulkImage
    /\ mapped = 1 .. BulkPages - 1
    /\ bulk_enabled = TRUE
    /\ SHOULD_USE_PROCESS_VM_READV = TRUE
    /\ regs = ZeroRegs
    /\ raw_args = None
    /\ op = [name |-> "start"]
    /\ out = None
    /\ log = <<>>
    /\ pc = [at |-> "start"]

\* The path goes on at p, having issued the kernel requests lg.
Step(p, lg) ==
    /\ pc' = p
    /\ log' = lg
    /\ UNCHANGED <<arch, bytes, mapped, bulk_enabled, SHOULD_USE_PROCESS_VM_READV,
                   regs, raw_args, op, out>>

\* The path returns r.
Leave(r) ==
    /\ out' = r
    /\ log' = r.log
    /\ pc' = [pc EXCEPT !.at = "done"]
    /\ UNCHANGED <<arch, bytes, mapped, bulk_enabled, SHOULD_USE_PROCESS_VM_READV,
                   regs, raw_args, op>>

\* `if (remote_addr as usize).checked_add(len).is_none()`
PeekOverflows(remote_addr, len) == remote_addr + len > UsizeMax

\* read_by_ptrace_peek is called: the overflow check and `align_bytes`.
PeekEntered(remote_addr, len) ==
    /\ op' = [name |-> "read_by_ptrace_peek", address |-> remote_addr,
              len |-> len]
    /\ IF PeekOverflows(remote_addr, len)
       THEN /\ out' = RdErr("EFAULT", <<>>, <<>>)
            /\ pc' = At("done", remote_addr, len, 0, <<>>, 0, <<>>)
       ELSE /\ out' = out
            /\ pc' = At(IF remote_addr % WORD_SIZE # 0 THEN "head" ELSE "words",
                        remote_addr, len, 0, <<>>, len \div WORD_SIZE, <<>>)
    /\ UNCHANGED <<arch, bytes, mapped, bulk_enabled, SHOULD_USE_PROCESS_VM_READV,
                   regs, raw_args, log>>

CallPeek ==
    /\ pc.at = "start"
    /\ \E q \in LoopRequests : PeekEntered(q.address, q.len)

\* `let copy_len = len.min(remote_addr as usize - align_bytes);`
copy_len(remote_addr, len, align_bytes) == Min(len, remote_addr - align_bytes)

\* The `if align_bytes != 0` block after its peek returned w; n is copy_len.
HeadPeeked(w, junk, aligned_addr, align_bytes, n) ==
    IF ~w.ok
    THEN Leave(RdErr(w.errno, pc.dest, Append(log, PeekReq(aligned_addr))))
    ELSE Step(At("words", pc.cur + n, pc.len - n, pc.total_read + n,
                 pc.dest \o PrefixBytes(w.word, align_bytes, n, junk),
                 (pc.len - n) \div WORD_SIZE, <<>>),
              Append(log, PeekReq(aligned_addr)))

PeekHead ==
    /\ pc.at = "head"
    /\ \E w \in PeekOutcomes(pc.cur - (pc.cur % WORD_SIZE)), junk \in JunkBytes :
          HeadPeeked(w, junk, pc.cur - (pc.cur % WORD_SIZE), pc.cur % WORD_SIZE,
                     copy_len(pc.cur, pc.len, pc.cur % WORD_SIZE))

\* One pass of `for _ in 0..(len / WORD_SIZE)`
PeekWordIter ==
    /\ pc.at = "words"
    /\ pc.k > 0
    /\ \E w \in PeekOutcomes(pc.cur) :
          IF ~w.ok
          THEN Leave(RdErr(w.errno, pc.dest, Append(log, PeekReq(pc.cur))))
          ELSE Step([pc EXCEPT !.cur = @ + WORD_SIZE,
                               !.total_read = @ + WORD_SIZE,
                               !.dest = @ \o w.word,
                               !.k = @ - 1],
                    Append(log, PeekReq(pc.cur)))

\* `left_over` after the loop, and the return.
LeftOverPeeked(w, left_over) ==
    IF ~w.ok
    THEN Leave(RdErr(w.errno, pc.dest, Append(log, PeekReq(pc.cur))))
    ELSE Leave(RdOk(pc.total_read + left_over,
                    pc.dest \o SubSeq(w.word, 1, left_over),
                    Append(log, PeekReq(pc.cur))))

PeekLeftOver ==
    /\ pc.at = "words"
    /\ pc.k = 0
    /\ IF pc.len % WORD_SIZE = 0
       THEN Leave(RdOk(pc.total_read, pc.dest, log))
       ELSE \E w \in PeekOutcomes(pc.cur) :
               LeftOverPeeked(w, pc.len % WORD_SIZE)

\* read_by_process_vm_readv is called.
CallBulk ==
    /\ pc.at = "start"
    /\ \E q \in LoopRequests :
          /\ op' = [name |-> "read_by_process_vm_readv", address |-> q.address,
                    len |-> q.len]
          /\ pc' = At("outer", q.address, q.len, 0, <<>>, 0, <<>>)
    /\ UNCHANGED <<arch, bytes, mapped, bulk_enabled, SHOULD_USE_PROCESS_VM_READV,
                   regs, raw_args, out, log>>

\* The test of the outer `while len > 0`, `dst_iov` and `riov_used = 0`;
\* k keeps dst_iov.iov_len.
OuterIter ==
    /\ pc.at = "outer"
    /\ IF pc.len > 0
       THEN Step([pc EXCEPT !.at = "inner", !.k = pc.len, !.riovs = <<>>], log)
       ELSE Leave(RdOk(pc.total_read, pc.dest, log))

\* A pass of the inner loop left its locals as s.
Built(s) ==
    IF ~s.ok THEN Leave(RdErr("EFAULT", pc.dest, log))
    ELSE Step([pc EXCEPT !.riovs = s.riovs, !.cur = s.cur, !.len = s.len], log)

\* The test of the inner `while len > 0`, the `break` at IOV_MAX, and one
\* pass of its body.
InnerIter ==
    /\ pc.at = "inner"
    /\ IF pc.len > 0 /\ Len(pc.riovs) # IOV_MAX
       THEN Built(IovStep([ok |-> TRUE, riovs |-> pc.riovs, cur |-> pc.cur,
                           len |-> pc.len]))
       ELSE Step([pc EXCEPT !.at = "call"], log)

\* A test that takes no return for a failure
ReadvFailed_never(read) == FALSE

\* `if read == -1`
ReadvFailed(read) == read = -1

\* What follows the call in the outer loop, when it returned r.
Returned(r) ==
    IF ReadvFailed(r.ret)
    THEN Leave(RdErr(r.errno, pc.dest, Append(log, ReadvReq(pc.riovs))))
    ELSE Step([pc EXCEPT !.at = "outer",
                         !.total_read = @ + r.ret,
                         !.dest = @ \o r.data],
              Append(log, ReadvReq(pc.riovs)))

\* The process_vm_readv call.
Readv ==
    /\ pc.at = "call"
    /\ \/ \E r \in ReadvFailures : Returned(r)
       \/ \E r \in ReadvTransfers(pc.riovs) : Returned(r)

NextLoops ==
    \/ CallPeek
    \/ PeekHead
    \/ PeekWordIter
    \/ PeekLeftOver
    \/ CallBulk
    \/ OuterIter
    \/ InnerIter
    \/ Readv

SpecLoops == InitLoops /\ [][NextLoops]_vars

\* Each path runs on until it returns.
SpecLoopsFair == SpecLoops /\ WF_vars(NextLoops)


----------------------------------------------------------------------------
(* Properties of the two paths *)

AtBulkDone == pc.at = "done" /\ op.name = "read_by_process_vm_readv"
AtPeekDone == pc.at = "done" /\ op.name = "read_by_ptrace_peek"

Wraps == op.name # "start" /\ op.address + op.len > UsizeMax

\* The kernel request stays inside the address space.
InsideAddressSpace(c) ==
    IF c.call = "peek" THEN c.addr + WORD_SIZE - 1 <= UsizeMax
    ELSE \A i \in 1 .. Len(c.iovs) : c.iovs[i].base + c.iovs[i].len - 1 <= UsizeMax

\* C22: a request whose addr + len wraps around the address space is
\* rejected with EFAULT by the word path and by the bulk path; at no point
\* of such a request is a byte stored into the destination, and no kernel
\* request of it reaches beyond the address space.
C22_WrapRejected ==
    Wraps =>
        /\ pc.dest = <<>>
        /\ \A i \in 1 .. Len(log) : InsideAddressSpace(log[i])
        /\ pc.at = "done" =>
              /\ ~out.ok
              /\ out.errno = "EFAULT"
              /\ out.buf = <<>>


\* The word at the aligned address below a.
WordBelow(a) == PeekWord(a - (a % WORD_SIZE))

\* C23: from an address misaligned by m bytes the word path first peeks the
\* word-aligned address below it and stores min(len, WORD_SIZE - m) bytes,
\* those of the peeked word from offset m on and none from beyond the word;
\* every later peek of the request is at a word-aligned address.
C23_PrefixWithinWord ==
    /\ [][(pc.at = "head" /\ pc'.at = "words") =>
             /\ log' = <<PeekReq(pc.cur - (pc.cur % WORD_SIZE))>>
             /\ pc'.total_read = Min(pc.len, WORD_SIZE - (pc.cur % WORD_SIZE))
             /\ pc'.dest = SubSeq(WordBelow(pc.cur), (pc.cur % WORD_SIZE) + 1,
                                  (pc.cur % WORD_SIZE) + pc'.total_read)
             /\ pc'.cur = pc.cur + pc'.total_read
             /\ pc'.len = pc.len - pc'.total_read]_vars
    /\ [](op.name = "read_by_ptrace_peek"
             => \A i \in 2 .. Len(log) : log[i].addr % WORD_SIZE = 0)


----------------------------------------------------------------------------
(* The readers of dynamically sized records (inspect.rs, types/dst.rs) *)

\* impl_slice_dst! { rseq => 28, 32, ..., msgbuf => size_of::<c_long>(), .. }:
\* the record types with the size of their fixed part.
DstT(name, other) == [kind |-> "dst", name |-> name, size |-> other]
Rseq == DstT("rseq", 28)
Msgbuf == DstT("msgbuf", WORD_SIZE)

\* SliceDst::layout_for: `Layout::from_size_align(len + $other, $a)`, the
\* bytes allocated for a slice of len elements.
layout_for(T, len) == (len + T.size) % (UsizeMax + 1)

\* The Arc<T> a reader hands back: the length of its slice, the bytes
\* allocated for it, and what they hold; a byte the read did not store is
\* junk.
DstValue(len, alloc, buf, junk) ==
    [len |-> len, alloc |-> alloc,
     bytes |-> [i \in 1 .. alloc |-> IF i <= Len(buf) THEN buf[i] ELSE junk]]

\* try_new_slice_dst(len, |ptr| { let read = read_remote_memory(.., size,
\* ptr)?; if read != size { return Err(Errno::EIO) } else { Ok(()) } }),
\* where r is what read_remote_memory returned.
TryNewSliceDst(T, len, size, r, junk) ==
    IF ~r.ok THEN Ret(ReadFailure(r.errno, None), r.log, r.flag)
    ELSE IF r.n # size THEN Ret(ReadFailure("EIO", None), r.log, r.flag)
    ELSE Ret(Ok(DstValue(len, layout_for(T, len), r.buf, junk)), r.log, r.flag)

\* impl_inspect_dst! of inspect.rs: `try_new_slice_dst(size, ..)`
inspect_dst(T, address, size, env) ==
    TryNewSliceDst(T, size, size, read_remote_memory(address, size, env),
                   env.junk)

\* impl_slice_dst! of types/dst.rs: `try_new_slice_dst(size - $other, ..)`.
\* With size < $other the subtraction panics in a build with overflow
\* checks and wraps in one without.
inspect_slice_dst(T, address, size, env, overflow_checks) ==
    IF size < T.size /\ overflow_checks THEN Ret(Panic, <<>>, env.flag)
    ELSE TryNewSliceDst(T, (size - T.size) % (UsizeMax + 1), size,
                        read_remote_memory(address, size, env), env.junk)

\* The sizes a sibling field may give: below the fixed part of either
\* record, equal to it, and above it.
DstSizes == {4, WORD_SIZE, 2 * WORD_SIZE, 28, 28 + WORD_SIZE}

\* Inside a page, up to the end of a page that may be followed by one that
\* is not mapped, and outside the tracee.
DstAddresses ==
    {0, PageSize, PageSize + 3, 2 * PageSize - WORD_SIZE, 2 * PageSize - 28,
     3 * PageSize, WildAddr}

ReadDst ==
    /\ op.name = "start"
    /\ \E a \in DstAddresses, size \in DstSizes, env \in Envs :
          Called("inspect_dst", a, Rseq, size, env, inspect_dst(Rseq, a, size, env))

ReadSliceDst ==
    /\ op.name = "start"
    /\ \E a \in DstAddresses, T \in {Rseq, Msgbuf}, size \in DstSizes,
          env \in Envs, overflow_checks \in BOOLEAN :
          Called("inspect_slice_dst", a, T, size, env,
                 inspect_slice_dst(T, a, size, env, overflow_checks))

NextDst == ReadDst \/ ReadSliceDst

SpecDst == InitReader /\ [][NextDst]_vars

\* C25: a dynamically sized read of byte_size bytes allocates exactly
\* byte_size bytes and requests exactly that range; it returns Ok only when
\* the whole range was read, the record then holding the tracee's bytes; a
\* shorter read gives ReadFailure with no partial value; and a byte_size
\* smaller than the fixed part of the record gives ReadFailure, not a panic
\* and not a record.
C25_VariableSized ==
    AtReader({"inspect_dst", "inspect_slice_dst"})
        => /\ out.tag \in {"Ok", "ReadFailure"}
           /\ out.tag = "ReadFailure" => out.partial = None
           /\ out.tag = "Ok"
                => /\ out.val[1].alloc = op.count
                   /\ AllReadable(op.address, op.count)
                   /\ out.val[1].bytes = BytesAt(op.address, op.count)
           /\ ~AllReadable(op.address, op.count) => out.tag = "ReadFailure"
           /\ op.count < op.T.size => out.tag = "ReadFailure"


----------------------------------------------------------------------------
(* The tracer loop of examples/mmaptrace.rs *)

\* The system calls the tracee makes: read, mmap, munmap and execve.
MmapTracerNumbers == {0, 9, 11, 59}

\* pc is the tracee's side of the syscall stops: whether it is inside a
\* system call, i.e. whether its last syscall stop was an entry stop.
InitMmapTracer ==
    /\ arch = "x86_64"
    /\ bytes = [a \in 0 .. MemTop |-> ExecImage[a + 1]]
    /\ mapped = UserPages
    /\ bulk_enabled = TRUE
    /\ SHOULD_USE_PROCESS_VM_READV = TRUE
    /\ regs = ZeroRegs
    /\ raw_args = None
    /\ op = [name |-> "start", raw |-> None, running |-> TRUE]
    /\ out = None
    /\ log = <<>>
    /\ pc = [inside |-> FALSE]

\* The tracee's registers at its next syscall stop: those of a new call at
\* an entry stop, those of the call it is in, with the kernel's result, at
\* an exit stop.
StopRegs ==
    IF pc.inside
    THEN {[nr |-> regs.nr, args |-> regs.args, res |-> v] : v \in ResultSlots}
    ELSE {[nr |-> n, args |-> a, res |-> 0] : n \in MmapTracerNumbers, a \in ArgFiles}

\* What ptrace_getregs returns at a stop where the registers are r.
GetregsAt(r) ==
    {[ok |-> TRUE, errno |-> "", regs |-> r]}
    \cup {[ok |-> FALSE, errno |-> e, regs |-> ZeroRegs] : e \in GetregsErrnos}

\* `matches!(raw, SyscallRawArgs::Mmap(_) | SyscallRawArgs::Munmap(_))`
IsMmapOrMunmap(raw) ==
    raw.variant # 0 /\ Table[raw.variant].name \in {"mmap", "munmap"}

\* The PtraceSyscall arm handled the stop with registers r: what it did,
\* with which raw record, what it decoded and what it keeps in `raw_args`.
MmapStopped(name, raw, r, rec, lg, flag, retained, running) ==
    /\ op' = [name |-> name, raw |-> raw, running |-> running]
    /\ regs' = r
    /\ pc' = [inside |-> ~pc.inside]
    /\ raw_args' = retained
    /\ out' = rec
    /\ log' = lg
    /\ SHOULD_USE_PROCESS_VM_READV' = flag
    /\ UNCHANGED <<arch, bytes, mapped, bulk_enabled>>

\* `?` on a failed ptrace_getregs or get_raw_args ends main.
MmapFailed(name, r) ==
    MmapStopped(name, None, r, out, log, SHOULD_USE_PROCESS_VM_READV, raw_args,
                FALSE)

MmapDecoded(name, raw, r, d, retained, resumed) ==
    MmapStopped(name, Some(raw), r, d.rec, d.log, d.flag, retained, resumed)

\* The branch `if let Some(raw) = raw_args`
MmapExit(raw, r, g) ==
    IF ~g.ok THEN MmapFailed("getregs_failed", r)
    ELSE \E env \in Envs, resumed \in BOOLEAN :
            MmapDecoded("inspect_sysexit", raw, r, inspect_sysexit(raw, g.regs, env),
                        None, resumed)

\* The else branch; c is what get_raw_args returned.
MmapEnter(r, c) ==
    IF ~c.ok THEN MmapFailed("get_raw_args_failed", r)
    ELSE IF IsMmapOrMunmap(c.raw)
    THEN \E env \in Envs, resumed \in BOOLEAN :
            MmapDecoded("get_raw_args", c.raw, r, inspect_sysenter(c.raw, env),
                        Some(c.raw), resumed)
    ELSE \E resumed \in BOOLEAN :
            MmapStopped("get_raw_args", Some(c.raw), r, out, log,
                        SHOULD_USE_PROCESS_VM_READV, raw_args, resumed)

\* WaitStatus::PtraceSyscall in mmaptrace
MmapPtraceSyscall ==
    /\ op.running
    /\ \E r \in StopRegs : \E g \in GetregsAt(r) :
          IF raw_args # None THEN MmapExit(raw_args[1], r, g)
          ELSE MmapEnter(r, get_raw_args(g))

\* The other arms are those of rstrace.
NextMmapTracer ==
    \/ WaitStopped
    \/ WaitExited
    \/ WaitSignaled
    \/ WaitPtraceEvent
    \/ MmapPtraceSyscall
    \/ WaitOther

SpecMmapTracer == InitMmapTracer /\ [][NextMmapTracer]_vars

\* C28: in the mmaptrace loop get_raw_args is called only at syscall-entry
\* stops of the tracee, whatever system calls it makes: a stop at which it
\* was called has left the tracee inside a system call, and a stop decoded
\* as an exit has left it outside.
C28_EntryStopsOnly ==
    /\ op.name \in {"get_raw_args", "get_raw_args_failed"} => pc.inside
    /\ op.name \in {"inspect_sysexit", "getregs_failed"} => ~pc.inside


\* The remote iovecs built so far: those of the calls made and those of the
\* call being prepared.
RECURSIVE IovsCalled(_)
IovsCalled(lg) ==
    IF lg = <<>> THEN 0 ELSE Len(Head(lg).iovs) + IovsCalled(Tail(lg))

IovsBuilt ==
    IovsCalled(log) + (IF pc.at \in {"inner", "call"} THEN Len(pc.riovs) ELSE 0)

CeilDiv(a, b) == (a + b - 1) \div b

\* C30: each path returns, whatever the kernel answers.  On the bulk path
\* every remote iovec built makes the remaining length strictly smaller, and
\* a request builds at most ceil(len / page_size) + 1 of them.  The word
\* path issues at most len / WORD_SIZE + 2 peeks; a peek after which it goes
\* on has stored its bytes, and after its return no further peek is made.
C30_Terminates ==
    /\ <>(pc.at = "done")
    /\ [][(pc.at = "inner" /\ pc'.at = "inner")
             => /\ Len(pc'.riovs) = Len(pc.riovs) + 1
                /\ pc'.len < pc.len
                /\ pc'.len >= 0]_vars
    /\ [](op.name = "read_by_process_vm_readv"
             => IovsBuilt <= CeilDiv(op.len, PageSize) + 1)
    /\ [](op.name = "read_by_ptrace_peek"
             => Len(log) <= (op.len \div WORD_SIZE) + 2)
    /\ [][(op.name = "read_by_ptrace_peek" /\ Len(log') > Len(log))
             => /\ Len(log') = Len(log) + 1
                /\ \/ pc'.at = "done"
                   \/ /\ Len(pc'.dest) = pc'.total_read
                      /\ pc'.cur - pc.cur = pc'.total_read - pc.total_read]_vars
    /\ [][pc.at # "done"]_vars

\* A bulk read from an address inside a page has returned all its bytes
\* after building one remote iovec more than ceil(len / page_size).
C30_Witness ==
    /\ AtBulkDone
    /\ out.ok
    /\ out.n = op.len
    /\ op.address % PageSize # 0
    /\ IovsBuilt = CeilDiv(op.len, PageSize) + 1

====
